---- MODULE Spec2Model ----
(***************************************************************************)
(* Model of the envelope streaming engine of adobe/pipeline-go.            *)
(*                                                                         *)
(* The first part models reconnectStream, the reconnect supervisor; the    *)
(* second part (after the claims on the supervisor) models the stages that *)
(* produce the units of one connection: envelopeStream in its two versions *)
(* and pingFilter.  stream.go holds two versions of reconnectStream:       *)
(* holds two versions of it:                                               *)
(*   version 1  (stream.go lines 150-203): a per-connection context, a     *)
(*              delay only after a failed factory call;                    *)
(*   version 2  (stream.go lines 328-390): the factory gets the caller's   *)
(*              context, one pending unit is buffered, and the delay       *)
(*              follows every attempt.                                     *)
(* The supervisor goroutine is a process with a program counter `pc'.  The *)
(* stream factory, the source goroutine behind the channel `in', the       *)
(* caller receiving from `out', the caller's cancel() and the clock are    *)
(* the environment.                                                        *)
(***************************************************************************)
EXTENDS Integers, Sequences, FiniteSets, TLC

(* ---------------------------------------------------------------- bounds *)

\* Largest reconnection delay tried, in clock ticks.
MaxDelay == 2

\* Largest number of units one source sends during one connection attempt.
MaxUnits == 2

\* Largest number of JSON values in a transport body.
MaxBody == 2

\* Largest pingTimeout tried, in clock ticks.
MaxTimeout == 2

\* Number of PING envelopes the server sends in a run with regular PINGs.
MaxPings == 3

(* ------------------------------------------------------------ data model *)

\* A nil pointer or nil error is the empty sequence, a non-nil one a
\* one-element sequence holding the value.
Nil == <<>>

Some(x) == <<x>>

\* EnvelopeOrError{Envelope: &Envelope{Type: t}}: the other fields of the
\* envelope have their zero values.
EnvelopeUnit(t) ==
    [Envelope |->
         Some([Type |-> t, Partition |-> 0, Key |-> "", Offset |-> 0,
               Topic |-> "", CreateTime |-> 0,
               Message |-> [ImsOrg |-> "", Key |-> "", Locations |-> <<>>,
                            Source |-> "", Value |-> ""],
               SyncMarker |-> ""]),
     Err |-> Nil]

\* EnvelopeOrError{Err: errors.New(text)}
ErrorUnit(text) == [Envelope |-> Nil, Err |-> Some(text)]

\* The zero value of EnvelopeOrError (what a receive from a closed channel
\* yields).
ZeroUnit == [Envelope |-> Nil, Err |-> Nil]

\* The units a source may send.
Units == {EnvelopeUnit("DATA"), ErrorUnit("decode envelope: unexpected EOF")}

\* ctx.Err() of a cancelled context.
Canceled == "context canceled"

\* The errors a stream factory may return while the context is live.
FactoryErrors == {"nope"}

\* Mutant of GetStreamError: the factory's error is forwarded unwrapped.
GetStreamErrorBare(e) == e

\* fmt.Errorf("get stream: %v", err)
GetStreamError(e) == "get stream: " \o e

(* ------------------------------------------------------------------ state *)

VARIABLES
    version,        \* which reconnectStream of stream.go runs: 1 or 2
    delay,          \* the delay argument, in ticks
    ctxDone,        \* ctx.Done() is closed
    pc,             \* position of the supervisor goroutine
    streamCtx,      \* version 1: "none", "live" or "cancelled"
    err,            \* the error the last factory call returned, or Nil
    inCh,           \* the source channel `in': "nil", "open" or "closed"
    inBuf,          \* units sent on `in' and not yet received
    msg,            \* version 1: the unit being forwarded
    envelope,       \* version 2: var envelope
    envelopeReady,  \* version 2: var envelopeReady
    open,           \* version 2: var open
    outClosed,      \* close(out) has run
    recvWaiting,    \* the caller is blocked in <-out
    sent,           \* units the source sent during the current attempt
    received,       \* units the caller received during the current attempt
    ended,          \* how the previous attempt ended: "none", "error",
                    \* "closed" or "cancelled"
    sinceConnect,   \* ticks since the last factory invocation (saturating)
    sinceEnd,       \* ticks since the previous attempt ended (saturating);
                    \* time.After(delay) is created in that same step
    body,           \* the transport (response body) behind the source:
                    \* "none", "open" or "closed"
    stage,          \* which stage runs on the body: "off", "staged"
                    \* (envelopeStream of lines 24-59), "fused"
                    \* (envelopeStream of lines 228-299), "ping"
                    \* (pingFilter) or "eos" (endOfStreamFilter)
    pingTimeout,    \* the pingTimeout / timeout argument, in ticks
    bodyData,       \* the JSON values written to the transport so far
    bodyEnd,        \* what follows them: "eof" (the writer closed) or
                    \* "stall" (the writer stays silent)
    bodyPos,        \* number of values the decoder has consumed
    decErr,         \* the error the json.Decoder keeps (dec.err), or Nil
    decBuf,         \* number of values the decoder has read from the body
                    \* into its buffer
    dpc,            \* position of the decoding goroutine
    dUnit,          \* the unit the decoding goroutine is sending
    epc,            \* position of the goroutine of the fused envelopeStream
                    \* or of a filter
    deadline,       \* fused: var deadline, as ticks from now; -1 when it
                    \* is before now
    timer,          \* ticks until deadlineCh / timer.C is ready; 0 = ready
    cancelled,      \* fused: cancel() of the derived context has run
    exit,           \* the return statement the stage took, or "none"
    sincePing,      \* ticks since the stage last took a PING, or since it
                    \* started (saturating)
    sinceArrival,   \* ticks since the last value reached the transport
                    \* (saturating); used in runs with regular PINGs
    elapsed,        \* ticks since the stage started (saturating); used in
                    \* runs with regular PINGs
    op,             \* the call of the client API that is modelled: "off",
                    \* "NewClient", "Send", "Sync" or "Receive"
    cpc,            \* position inside that call
    cfg,            \* NewClient: the ClientConfig
    reqDelay,       \* Receive: ReceiveRequest.ReconnectionDelay, in ticks
    token,          \* what tokenGetter.Token returned in this call, or Nil
    res,            \* what client.Do returned in this call, or Nil
    resBody,        \* res.Body: "none", "open" or "closed"
    requests,       \* number of HTTP requests performed
    ret             \* what the call returned: a value and an error

vars == <<version, delay, ctxDone, pc, streamCtx, err, inCh, inBuf, msg,
          envelope, envelopeReady, open, outClosed, recvWaiting, sent,
          received, ended, sinceConnect, sinceEnd, body, stage, pingTimeout,
          bodyData, bodyEnd, bodyPos, decErr, decBuf, dpc, dUnit, epc, deadline,
          timer,
          cancelled, exit, sincePing, sinceArrival, elapsed, op, cpc, cfg,
          reqDelay, token, res, resBody, requests, ret>>

\* The state of a call of the client API.
clVars == <<op, cpc, cfg, reqDelay, token, res, resBody, requests, ret>>

\* The state of the stages of one connection.
esVars == <<stage, pingTimeout, bodyData, bodyEnd, bodyPos, decErr, decBuf,
            dpc, dUnit, epc,
            deadline, timer, cancelled, exit, sincePing, sinceArrival,
            elapsed>>

\* What the supervisor never writes: its arguments, the state of the
\* stages, which are abstracted to the source behind `in' while the
\* supervisor is modelled, and the state of the client call.
cfgVars == <<version, delay, esVars, clVars>>

srcVars == <<inCh, inBuf, sent, body>>

loopVars == <<envelope, envelopeReady, open>>

outVars == <<outClosed, recvWaiting, received>>

clockVars == <<sinceConnect, sinceEnd>>

\* The clocks saturate here: they are only ever compared with delay.
ClockCap == delay

Min(a, b) == IF a < b THEN a ELSE b

\* No stage is modelled in detail.
StagesOff ==
    /\ stage = "off"
    /\ pingTimeout = 0
    /\ bodyData = <<>>
    /\ bodyEnd = "eof"
    /\ bodyPos = 0
    /\ decErr = Nil
    /\ decBuf = 0
    /\ dpc = "off"
    /\ dUnit = ZeroUnit
    /\ epc = "off"
    /\ deadline = -1
    /\ timer = 0
    /\ cancelled = FALSE
    /\ exit = "none"
    /\ sincePing = 0
    /\ sinceArrival = 0
    /\ elapsed = 0

\* What a call of the client API returns: a value (or Nil) and an error
\* (or Nil).
Return(v, e) == [value |-> v, err |-> e]

\* No call of the client API is modelled in detail.
ClientOff ==
    /\ op = "off"
    /\ cpc = "off"
    /\ cfg = Nil
    /\ reqDelay = 0
    /\ token = Nil
    /\ res = Nil
    /\ resBody = "none"
    /\ requests = 0
    /\ ret = Return(Nil, Nil)

Init ==
    /\ version \in {1, 2}
    /\ delay \in 0..MaxDelay
    /\ ctxDone = FALSE
    /\ pc = "call"
    /\ streamCtx = "none"
    /\ err = Nil
    /\ inCh = "nil"
    /\ inBuf = <<>>
    /\ msg = ZeroUnit
    /\ envelope = ZeroUnit
    /\ envelopeReady = FALSE
    /\ open = FALSE
    /\ outClosed = FALSE
    /\ recvWaiting = FALSE
    /\ sent = <<>>
    /\ received = <<>>
    /\ ended = "none"
    /\ sinceConnect = 0
    /\ sinceEnd = 0
    /\ body = "none"
    /\ StagesOff
    /\ ClientOff

(* ------------------------------------------------------------ environment *)

\* cancel() of the caller's context.
Cancel ==
    /\ ~ctxDone
    /\ ctxDone' = TRUE
    /\ UNCHANGED <<cfgVars, pc, streamCtx, err, srcVars, msg, loopVars,
                   outVars, ended, clockVars>>

\* One tick of wall-clock time.
Tick ==
    /\ sinceConnect' = Min(sinceConnect + 1, ClockCap)
    /\ sinceEnd' = Min(sinceEnd + 1, ClockCap)
    /\ UNCHANGED <<cfgVars, ctxDone, pc, streamCtx, err, srcVars, msg,
                   loopVars, outVars, ended>>

\* The caller starts a receive on out.
CallerWait ==
    /\ ~recvWaiting
    /\ ~outClosed
    /\ recvWaiting' = TRUE
    /\ UNCHANGED <<cfgVars, ctxDone, pc, streamCtx, err, srcVars, msg,
                   loopVars, outClosed, received, ended, clockVars>>

\* The stream factory returns (nil, e).  ctx.Err() is returned only by a
\* factory whose context is cancelled.
FactoryErr(e) ==
    /\ pc = "connecting"
    /\ e = Canceled => ctxDone
    /\ err' = Some(e)
    /\ pc' = "sendErr"
    /\ UNCHANGED <<cfgVars, ctxDone, streamCtx, srcVars, msg, loopVars,
                   outVars, ended, clockVars>>

\* The stream factory returns (in, nil).  Version 2 then initialises the
\* locals of its forwarding loop (lines 347-351).  The factory of version 2
\* is the one Client.Receive builds: it opens a response body and starts
\* envelopeStream on it.
FactoryOk ==
    /\ pc = "connecting"
    /\ err' = Nil
    /\ inCh' = "open"
    /\ body' = IF version = 2 THEN "open" ELSE body
    /\ pc' = IF version = 1 THEN "recv" ELSE "loop"
    /\ envelope' = ZeroUnit
    /\ envelopeReady' = FALSE
    /\ open' = (version = 2)
    /\ UNCHANGED <<cfgVars, ctxDone, streamCtx, inBuf, sent, msg, outVars,
                   ended, clockVars>>

\* The source sends a unit on in.
SourceSend(u) ==
    /\ inCh = "open"
    /\ Len(sent) < MaxUnits
    /\ inBuf' = Append(inBuf, u)
    /\ sent' = Append(sent, u)
    /\ UNCHANGED <<cfgVars, ctxDone, pc, streamCtx, err, inCh, body, msg,
                   loopVars, outVars, ended, clockVars>>

\* The source closes in.  (In envelopeStream of version 2 this is the
\* deferred close(out) of line 233.)
SourceClose ==
    /\ inCh = "open"
    /\ inCh' = "closed"
    /\ UNCHANGED <<cfgVars, ctxDone, pc, streamCtx, err, inBuf, sent, body,
                   msg, loopVars, outVars, ended, clockVars>>

\* The goroutine of envelopeStream (version 2) runs its last deferred call,
\* body.Close() of line 232, which follows the deferred close(out).
BodyClose ==
    /\ version = 2
    /\ body = "open"
    /\ inCh = "closed"
    /\ body' = "closed"
    /\ UNCHANGED <<cfgVars, ctxDone, pc, streamCtx, err, inCh, inBuf, sent,
                   msg, loopVars, outVars, ended, clockVars>>

(* ---------------------------------------------- channel and timer helpers *)

\* A receive from in would yield (unit, true).
InHasUnit == inCh # "nil" /\ inBuf # <<>>

\* A receive from in would yield (zero, false).
InIsClosed == inCh = "closed" /\ inBuf = <<>>

\* Mutant of TimerFired: the wait does not last (time.After(0)).
TimerAlwaysFired == TRUE

\* The channel of time.After(delay) is ready.
TimerFired == sinceEnd >= delay

\* A send on out goes through: the caller takes unit u.
OutSend(u) ==
    /\ recvWaiting
    /\ ~outClosed
    /\ recvWaiting' = FALSE
    /\ received' = Append(received, u)
    /\ UNCHANGED outClosed

\* defer close(out), as the goroutine returns.
CloseOut ==
    /\ outClosed' = TRUE
    /\ recvWaiting' = FALSE
    /\ pc' = "done"
    /\ UNCHANGED received

\* The start of a connection attempt: the bookkeeping of the attempt that
\* begins with a factory invocation.
BeginAttempt ==
    /\ pc' = "connecting"
    /\ err' = Nil
    /\ inCh' = "nil"
    /\ inBuf' = <<>>
    /\ sent' = <<>>
    /\ received' = <<>>
    /\ sinceConnect' = 0
    /\ UNCHANGED <<outClosed, recvWaiting, sinceEnd, body>>

\* The end of a connection attempt, for reason `how'.
EndAttempt(how) ==
    /\ ended' = how
    /\ sinceEnd' = 0
    /\ UNCHANGED sinceConnect

(* ------------------------------- reconnectStream, version 1 (lines 150-203) *)

\* streamCtx, streamCancel := context.WithCancel(ctx); stream(streamCtx)
R1Call ==
    /\ version = 1
    /\ pc = "call"
    /\ streamCtx' = "live"
    /\ BeginAttempt
    /\ UNCHANGED <<cfgVars, ctxDone, msg, loopVars, ended>>

\* case out <- EnvelopeOrError{Err: fmt.Errorf("get stream: %v", err)}
R1SendErr ==
    /\ version = 1
    /\ pc = "sendErr"
    /\ OutSend(ErrorUnit(GetStreamError(err[1])))
    /\ pc' = "delay"
    /\ EndAttempt("error")
    /\ UNCHANGED <<cfgVars, ctxDone, streamCtx, err, srcVars, msg, loopVars>>

\* case <-ctx.Done(): return true   (first select)
R1SendErrDone ==
    /\ version = 1
    /\ pc = "sendErr"
    /\ ctxDone
    /\ streamCtx' = "cancelled"
    /\ CloseOut
    /\ EndAttempt("cancelled")
    /\ UNCHANGED <<cfgVars, ctxDone, err, srcVars, msg, loopVars>>

\* case <-time.After(delay): return false
R1Delay ==
    /\ version = 1
    /\ pc = "delay"
    /\ TimerFired
    /\ streamCtx' = "cancelled"
    /\ pc' = "call"
    /\ UNCHANGED <<cfgVars, ctxDone, err, srcVars, msg, loopVars, outVars,
                   ended, clockVars>>

\* case <-ctx.Done(): return true   (second select)
R1DelayDone ==
    /\ version = 1
    /\ pc = "delay"
    /\ ctxDone
    /\ streamCtx' = "cancelled"
    /\ CloseOut
    /\ UNCHANGED <<cfgVars, ctxDone, err, srcVars, msg, loopVars, ended,
                   clockVars>>

\* case msg, ok := <-in, with ok
R1Recv ==
    /\ version = 1
    /\ pc = "recv"
    /\ InHasUnit
    /\ msg' = Head(inBuf)
    /\ inBuf' = Tail(inBuf)
    /\ pc' = "forward"
    /\ UNCHANGED <<cfgVars, ctxDone, streamCtx, err, inCh, sent, body,
                   loopVars, outVars, ended, clockVars>>

\* Mutant of R1RecvClosed: a closed source stops the supervisor (return
\* true), which closes out.
R1RecvClosedStops ==
    /\ version = 1
    /\ pc = "recv"
    /\ InIsClosed
    /\ streamCtx' = "cancelled"
    /\ CloseOut
    /\ EndAttempt("closed")
    /\ UNCHANGED <<cfgVars, ctxDone, err, srcVars, msg, loopVars>>

\* Mutant of R1RecvClosed: a closed source is reported to the caller with
\* an error unit of the supervisor's own.
R1RecvClosedReportsClose ==
    /\ version = 1
    /\ pc = "recv"
    /\ InIsClosed
    /\ OutSend(ErrorUnit("stream closed"))
    /\ streamCtx' = "cancelled"
    /\ pc' = "call"
    /\ EndAttempt("closed")
    /\ UNCHANGED <<cfgVars, ctxDone, err, srcVars, msg, loopVars>>

\* case msg, ok := <-in, with !ok: return false
R1RecvClosed ==
    /\ version = 1
    /\ pc = "recv"
    /\ InIsClosed
    /\ streamCtx' = "cancelled"
    /\ pc' = "call"
    /\ EndAttempt("closed")
    /\ UNCHANGED <<cfgVars, ctxDone, err, srcVars, msg, loopVars, outVars>>

\* case <-ctx.Done(): return true   (outer select of the forwarding loop)
R1RecvDone ==
    /\ version = 1
    /\ pc = "recv"
    /\ ctxDone
    /\ streamCtx' = "cancelled"
    /\ CloseOut
    /\ EndAttempt("cancelled")
    /\ UNCHANGED <<cfgVars, ctxDone, err, srcVars, msg, loopVars>>

\* case out <- msg
R1Forward ==
    /\ version = 1
    /\ pc = "forward"
    /\ OutSend(msg)
    /\ msg' = ZeroUnit
    /\ pc' = "recv"
    /\ UNCHANGED <<cfgVars, ctxDone, streamCtx, err, srcVars, loopVars,
                   ended, clockVars>>

\* Mutant of R1ForwardDone: the send of the forwarding loop does not race
\* ctx.Done().
R1ForwardNoDone == FALSE /\ UNCHANGED vars

\* case <-ctx.Done(): return true   (inner select of the forwarding loop)
R1ForwardDone ==
    /\ version = 1
    /\ pc = "forward"
    /\ ctxDone
    /\ streamCtx' = "cancelled"
    /\ CloseOut
    /\ EndAttempt("cancelled")
    /\ UNCHANGED <<cfgVars, ctxDone, err, srcVars, msg, loopVars>>

(* ------------------------------- reconnectStream, version 2 (lines 328-390) *)

\* in, err := stream(ctx)
R2Call ==
    /\ version = 2
    /\ pc = "call"
    /\ BeginAttempt
    /\ UNCHANGED <<cfgVars, ctxDone, streamCtx, msg, loopVars, ended>>

\* case out <- EnvelopeOrError{Err: fmt.Errorf("get stream: %v", err)}: return
R2SendErr ==
    /\ version = 2
    /\ pc = "sendErr"
    /\ OutSend(ErrorUnit(GetStreamError(err[1])))
    /\ pc' = "delay"
    /\ EndAttempt("error")
    /\ UNCHANGED <<cfgVars, ctxDone, streamCtx, err, srcVars, msg, loopVars>>

\* case <-ctx.Done(): return   (the closure returns to the delay select)
R2SendErrDone ==
    /\ version = 2
    /\ pc = "sendErr"
    /\ ctxDone
    /\ pc' = "delay"
    /\ EndAttempt("cancelled")
    /\ UNCHANGED <<cfgVars, ctxDone, streamCtx, err, srcVars, msg, loopVars,
                   outVars>>

\* Mutant of R2LoopReturn: a closed source reconnects at once, skipping the
\* delay select.
R2LoopReturnNoDelay ==
    /\ version = 2
    /\ pc = "loop"
    /\ ~open /\ ~envelopeReady
    /\ pc' = "call"
    /\ EndAttempt("closed")
    /\ UNCHANGED <<cfgVars, ctxDone, streamCtx, err, srcVars, msg, loopVars,
                   outVars>>

\* if !open && !envelopeReady { return }
R2LoopReturn ==
    /\ version = 2
    /\ pc = "loop"
    /\ ~open /\ ~envelopeReady
    /\ pc' = "delay"
    /\ EndAttempt("closed")
    /\ UNCHANGED <<cfgVars, ctxDone, streamCtx, err, srcVars, msg, loopVars,
                   outVars>>

\* The forwarding loop is at its select.
R2AtSelect == version = 2 /\ pc = "loop" /\ (open \/ envelopeReady)

\* Mutant of R2Recv: inCh is set although a unit is pending, and the unit
\* received replaces it.
R2RecvWhilePending ==
    /\ R2AtSelect
    /\ open
    /\ InHasUnit
    /\ envelope' = Head(inBuf)
    /\ open' = TRUE
    /\ envelopeReady' = TRUE
    /\ inBuf' = Tail(inBuf)
    /\ UNCHANGED <<cfgVars, ctxDone, pc, streamCtx, err, inCh, sent, body,
                   msg, outVars, ended, clockVars>>

\* case envelope, open = <-inCh, a unit received: envelopeReady = open
R2Recv ==
    /\ R2AtSelect
    /\ ~envelopeReady /\ open
    /\ InHasUnit
    /\ envelope' = Head(inBuf)
    /\ open' = TRUE
    /\ envelopeReady' = TRUE
    /\ inBuf' = Tail(inBuf)
    /\ UNCHANGED <<cfgVars, ctxDone, pc, streamCtx, err, inCh, sent, body,
                   msg, outVars, ended, clockVars>>

\* Mutant of R2RecvClosed: the receive drops the ok flag (envelope, _ =
\* <-inCh), so open stays true.
R2RecvClosedStaysOpen ==
    /\ version = 2 /\ pc = "loop" /\ (open \/ envelopeReady)
    /\ ~envelopeReady /\ open
    /\ InIsClosed
    /\ envelope' = ZeroUnit
    /\ open' = TRUE
    /\ envelopeReady' = FALSE
    /\ UNCHANGED <<cfgVars, ctxDone, pc, streamCtx, err, srcVars, msg,
                   outVars, ended, clockVars>>

\* Mutant of R2RecvClosed: envelopeReady = true instead of envelopeReady =
\* open, so the zero value read from the closed channel is forwarded.
R2RecvClosedForwardsZero ==
    /\ version = 2 /\ pc = "loop" /\ (open \/ envelopeReady)
    /\ ~envelopeReady /\ open
    /\ InIsClosed
    /\ envelope' = ZeroUnit
    /\ open' = FALSE
    /\ envelopeReady' = TRUE
    /\ UNCHANGED <<cfgVars, ctxDone, pc, streamCtx, err, srcVars, msg,
                   outVars, ended, clockVars>>

\* case envelope, open = <-inCh, the channel closed: envelopeReady = open
R2RecvClosed ==
    /\ R2AtSelect
    /\ ~envelopeReady /\ open
    /\ InIsClosed
    /\ envelope' = ZeroUnit
    /\ open' = FALSE
    /\ envelopeReady' = FALSE
    /\ UNCHANGED <<cfgVars, ctxDone, pc, streamCtx, err, srcVars, msg,
                   outVars, ended, clockVars>>

\* Mutant of R2Send: envelopeReady is not cleared after the send.
R2SendKeepsReady ==
    /\ version = 2 /\ pc = "loop" /\ (open \/ envelopeReady)
    /\ envelopeReady
    /\ OutSend(envelope)
    /\ UNCHANGED <<cfgVars, ctxDone, pc, streamCtx, err, srcVars, msg,
                   loopVars, ended, clockVars>>

\* case outCh <- envelope: envelopeReady = false
R2Send ==
    /\ R2AtSelect
    /\ envelopeReady
    /\ OutSend(envelope)
    /\ envelopeReady' = FALSE
    /\ UNCHANGED <<cfgVars, ctxDone, pc, streamCtx, err, srcVars, msg,
                   envelope, open, ended, clockVars>>

\* case <-ctx.Done(): return   (the closure returns to the delay select)
R2LoopDone ==
    /\ R2AtSelect
    /\ ctxDone
    /\ pc' = "delay"
    /\ EndAttempt("cancelled")
    /\ UNCHANGED <<cfgVars, ctxDone, streamCtx, err, srcVars, msg, loopVars,
                   outVars>>

\* case <-time.After(delay): continue
R2Delay ==
    /\ version = 2
    /\ pc = "delay"
    /\ TimerFired
    /\ pc' = "call"
    /\ UNCHANGED <<cfgVars, ctxDone, streamCtx, err, srcVars, msg, loopVars,
                   outVars, ended, clockVars>>

\* case <-ctx.Done(): return   (defer close(out))
R2DelayDone ==
    /\ version = 2
    /\ pc = "delay"
    /\ ctxDone
    /\ CloseOut
    /\ UNCHANGED <<cfgVars, ctxDone, streamCtx, err, srcVars, msg, loopVars,
                   ended, clockVars>>

(* ---------------------------------------------------------- specification *)

Next ==
    \/ Cancel
    \/ Tick
    \/ CallerWait
    \/ \E e \in FactoryErrors \cup {Canceled} : FactoryErr(e)
    \/ FactoryOk
    \/ \E u \in Units : SourceSend(u)
    \/ SourceClose
    \/ BodyClose
    \/ R1Call
    \/ R1SendErr
    \/ R1SendErrDone
    \/ R1Delay
    \/ R1DelayDone
    \/ R1Recv
    \/ R1RecvClosed
    \/ R1RecvDone
    \/ R1Forward
    \/ R1ForwardDone
    \/ R2Call
    \/ R2SendErr
    \/ R2SendErrDone
    \/ R2LoopReturn
    \/ R2Recv
    \/ R2RecvClosed
    \/ R2Send
    \/ R2LoopDone
    \/ R2Delay
    \/ R2DelayDone

Spec == Init /\ [][Next]_vars

(* --------------------------------------------------------------- fairness *)

\* A step of the supervisor goroutine.
Supervisor ==
    \/ R1Call \/ R1SendErr \/ R1SendErrDone \/ R1Delay \/ R1DelayDone
    \/ R1Recv \/ R1RecvClosed \/ R1RecvDone \/ R1Forward \/ R1ForwardDone
    \/ R2Call \/ R2SendErr \/ R2SendErrDone \/ R2LoopReturn \/ R2Recv
    \/ R2RecvClosed \/ R2Send \/ R2LoopDone \/ R2Delay \/ R2DelayDone

\* The factory call returns.
FactoryReturns == FactoryOk \/ \E e \in FactoryErrors \cup {Canceled} : FactoryErr(e)

\* A ctx.Done() case taken inside the closure of the supervisor's loop.  Only
\* one version runs in a behaviour, so fairness of this disjunction is
\* fairness of the cases of that version.
ClosureDone ==
    \/ R1SendErrDone \/ R1DelayDone \/ R1RecvDone \/ R1ForwardDone
    \/ R2SendErrDone \/ R2LoopDone

\* The Go scheduler runs a runnable goroutine eventually (weak fairness of
\* the supervisor), and select picks uniformly at random among the ready
\* cases, so a ctx.Done() case that is ready again and again is eventually
\* the one taken (strong fairness of each ctx.Done() case).  The factory is
\* assumed to return once its context is cancelled.  Nothing is assumed of
\* the caller, the source or the clock.
CancelFairness ==
    /\ WF_vars(Supervisor)
    /\ WF_vars(ctxDone /\ FactoryReturns)
    /\ SF_vars(ClosureDone)
    /\ SF_vars(R2DelayDone)

CancelSpec == Spec /\ CancelFairness

\* The supervisor runs, time passes, the caller keeps receiving, every
\* factory call returns and every source eventually closes.
LiveFairness ==
    /\ WF_vars(Supervisor)
    /\ WF_vars(Tick)
    /\ WF_vars(CallerWait)
    /\ WF_vars(FactoryReturns)
    /\ WF_vars(SourceClose)

LiveSpec == Spec /\ LiveFairness

(* ----------------------------------------------------------------- claims *)

\* C1: the output channel is closed only after the caller's context has
\* been cancelled: in every reachable state, out closed implies ctx done.
C1_ClosedOnlyAfterCancel == outClosed => ctxDone

\* C1 witness: the supervisor has returned and closed out.
C1_Witness == pc = "done" /\ outClosed

\* C2: once the caller's context is cancelled, the output channel is
\* eventually closed, whichever wait point the supervisor is at.
C2_CancelClosesOut == ctxDone ~> outClosed

\* C2 witness: version 1 was cancelled while blocked forwarding a unit that
\* nobody received, and closed out.
C2_Witness ==
    /\ version = 1 /\ outClosed /\ ctxDone
    /\ msg # ZeroUnit /\ Len(received) < Len(sent)

\* C3 (as claimed): once the caller's context is cancelled the stream
\* factory is never invoked again: no factory invocation that follows an
\* earlier attempt starts while the context is cancelled.
C3_NoCallAfterCancel ==
    [][(ctxDone /\ ended # "none") => ~(pc = "call" /\ pc' = "connecting")]_vars

\* C4 (as claimed): after the caller's context is cancelled no further unit
\* is sent on out.
C4_NoSendAfterCancel == [][ctxDone => ~(Len(received') > Len(received))]_vars

\* C5: if the context is never cancelled (and the caller keeps receiving,
\* factory calls return, sources close), the factory is invoked infinitely
\* often.
C5_RetriesForever ==
    ([]~ctxDone) => ([]<>(pc = "call") /\ []<>(pc = "connecting"))

\* C5 witness: with the context live, a new factory invocation follows a
\* failed attempt or a closed source.
C5_Witness ==
    pc = "connecting" /\ ~ctxDone /\ ended \in {"error", "closed"}

\* C6: a factory call that returns error e produces exactly one unit for
\* that attempt, {Envelope: nil, Err: "get stream: " + e}; with the context
\* not cancelled it has been sent when the next factory call is about to
\* start.
C6_OneErrorUnitPerFailure ==
    err # Nil =>
        LET unit == [Envelope |-> <<>>, Err |-> <<"get stream: " \o err[1]>>]
        IN  /\ received = <<>> \/ received = <<unit>>
            /\ (pc = "call" /\ ~ctxDone) => received = <<unit>>
            /\ (pc = "delay" /\ ended = "error") => received = <<unit>>

\* C6 witness: the factory failed with "nope", the caller got the one
\* wrapped unit, and the next factory call is about to start.
C6_Witness ==
    /\ pc = "call" /\ ~ctxDone /\ err = <<"nope">>
    /\ received = <<[Envelope |-> <<>>, Err |-> <<"get stream: nope">>]>>

\* C7: after a failed factory call the next factory call starts no earlier
\* than delay ticks after the failed one was started.
C7_DelayBetweenAttempts ==
    (pc = "call" /\ err # Nil) => sinceConnect >= delay

\* C7 witness: a failed attempt, a positive delay, and the supervisor about
\* to call the factory again.
C7_Witness ==
    pc = "call" /\ err # Nil /\ delay > 0 /\ ended = "error"

\* C8 (as claimed): in version 1, when the source channel closes the
\* supervisor waits delay ticks before it calls the factory again.
C8_DelayAfterClose ==
    (version = 1 /\ pc = "call" /\ ended = "closed") => sinceEnd >= delay

\* C9: in version 2 every factory call after the first is preceded by a
\* wait of the full delay, however the previous attempt ended.
C9_DelayBeforeEveryRetry ==
    (version = 2 /\ pc = "call" /\ ended # "none") => sinceEnd >= delay

\* C9 witness: version 2 is about to reconnect after a source closed, with
\* a positive delay.
C9_Witness ==
    version = 2 /\ pc = "call" /\ ended = "closed" /\ delay > 0

IsPrefix(a, b) == Len(a) <= Len(b) /\ SubSeq(b, 1, Len(a)) = a

\* The unit the supervisor has received from in and not yet sent on out.
Pending ==
    IF version = 1
    THEN IF pc = "forward" THEN <<msg>> ELSE <<>>
    ELSE IF envelopeReady THEN <<envelope>> ELSE <<>>

\* C10: during one connection attempt the units delivered are the units of
\* the source, unchanged and in order, none duplicated, skipped or
\* filtered; absent cancellation all of them are delivered before the next
\* factory call.
C10_ForwardsInOrder ==
    /\ inCh # "nil" => IsPrefix(received, sent)
    /\ pc \in {"recv", "forward", "loop"} =>
           received \o Pending \o inBuf = sent
    /\ (pc = "call" /\ inCh # "nil" /\ ~ctxDone) =>
           received = sent /\ inCh = "closed"

\* C10 witness: version 2 delivered two different units of one source, in
\* order, and is about to reconnect.
C10_Witness ==
    /\ version = 2 /\ pc = "call" /\ ~ctxDone /\ ended = "closed"
    /\ Len(received) = 2 /\ received[1] # received[2] /\ received = sent

\* C11 (as claimed): the factory for the next attempt is not invoked while
\* the source channel of the previous attempt is still open.
C11_NoCallWhileSourceOpen ==
    [][(pc = "call" /\ pc' = "connecting") => inCh # "open"]_vars

\* C12 (as claimed): whenever the factory is invoked for a new attempt, the
\* transport body of the previous attempt has already been closed.  Stated
\* for runs without cancellation, where the claim already fails.
C12_PreviousBodyClosed ==
    [][(pc = "call" /\ pc' = "connecting" /\ ~ctxDone) => body # "open"]_vars

(***************************************************************************)
(* The stages of one connection.                                           *)
(*                                                                         *)
(*   "staged"  envelopeStream of stream.go lines 24-59: one goroutine that *)
(*             decodes the body and sends on out;                          *)
(*   "fused"   envelopeStream of stream.go lines 228-299 with the          *)
(*             goroutine decodeEnvelopes (lines 301-314): decoding,        *)
(*             heartbeat deadline and END_OF_STREAM in one select loop;    *)
(*   "ping"    pingFilter of stream.go lines 61-114, fed by the sends of   *)
(*             the staged envelopeStream;                                  *)
(*   "eos"     endOfStreamFilter of stream.go lines 116-146, fed the same  *)
(*             way.                                                        *)
(* The transport body is a sequence of JSON values, followed by end of     *)
(* input or by silence.  The writer of the body, the consumer of out, the  *)
(* caller's cancel() and the clock are the environment.                    *)
(***************************************************************************)

(* ------------------------------------------------------------ JSON values *)

\* One JSON value of the body: an object with its members, or text that is
\* not JSON.
Object(m) == [json |-> "object", members |-> m]

Garbage == [json |-> "garbage", members |-> [text |-> "invalid"]]

DataValue ==
    Object([envelopeType |-> "DATA", partition |-> 1, key |-> "k",
            offset |-> 7, topic |-> "t", createTime |-> 3,
            pipelineMessage |->
                [imsOrg |-> "org", key |-> "k",
                 locations |-> <<"loc-1", "loc-2">>, source |-> "src",
                 value |-> "v"]])

PingValue == Object([envelopeType |-> "PING"])

EndOfStreamValue == Object([envelopeType |-> "END_OF_STREAM"])

\* A JSON object with a member of the wrong type: "partition": "x" for
\* Partition int.
Mismatch ==
    [json |-> "mismatch",
     members |-> [envelopeType |-> "DATA", partition |-> "x"]]

Values == {DataValue, PingValue, EndOfStreamValue, Garbage, Mismatch}

\* The bodies tried: every sequence of at most MaxBody values.
Bodies == UNION {[1..n -> Values] : n \in 0..MaxBody}

\* io.EOF
EOF == "EOF"

\* The *json.SyntaxError of a value that is not JSON.
SyntaxError == "invalid character 'i' looking for beginning of value"

\* The *json.UnmarshalTypeError of a member of the wrong type.
TypeError ==
    "json: cannot unmarshal string into Go struct field Envelope.partition of type int"

\* The error of a read from a closed body.
ErrClosedBody == "read on closed body"

\* The error of decoding value v into an Envelope, or Nil.
ValueErr(v) ==
    CASE v.json = "object" -> Nil
      [] v.json = "mismatch" -> Some(TypeError)
      [] OTHER -> Some(SyntaxError)

\* The member of a JSON object that a struct tag names, or the zero value of
\* the field when the object has no such member.
Member(m, k, zero) == IF k \in DOMAIN m THEN m[k] ELSE zero

\* The bytes a json.RawMessage keeps of a JSON string: its text, with the
\* quotes.
RawMessage(v) == "\"" \o v \o "\""

\* Decoding a JSON object into a Message: each field takes the member its
\* struct tag names; Value keeps the raw text of its member.
DecodeMessage(m) ==
    [ImsOrg    |-> Member(m, "imsOrg", ""),
     Key       |-> Member(m, "key", ""),
     Locations |-> Member(m, "locations", <<>>),
     Source    |-> Member(m, "source", ""),
     Value     |-> IF "value" \in DOMAIN m THEN RawMessage(m["value"])
                   ELSE ""]

\* Mutant of DecodeEnvelope: the tags of Partition and Offset are swapped.
DecodeEnvelopeSwapped(m) ==
    [Type       |-> Member(m, "envelopeType", ""),
     Partition  |-> Member(m, "offset", 0),
     Key        |-> Member(m, "key", ""),
     Offset     |-> Member(m, "partition", 0),
     Topic      |-> Member(m, "topic", ""),
     CreateTime |-> Member(m, "createTime", 0),
     Message    |-> DecodeMessage(Member(m, "pipelineMessage", <<>>)),
     SyncMarker |-> Member(m, "syncMarker", "")]

\* json.Decoder.Decode into an Envelope: each field takes the member its
\* struct tag names.
DecodeEnvelope(m) ==
    [Type       |-> Member(m, "envelopeType", ""),
     Partition  |-> Member(m, "partition", 0),
     Key        |-> Member(m, "key", ""),
     Offset     |-> Member(m, "offset", 0),
     Topic      |-> Member(m, "topic", ""),
     CreateTime |-> Member(m, "createTime", 0),
     Message    |-> DecodeMessage(Member(m, "pipelineMessage", <<>>)),
     SyncMarker |-> Member(m, "syncMarker", "")]

\* The body holds a value that was not consumed yet.
Readable == bodyPos < Len(bodyData)

\* The decoder is at the end of the input.
AtEOF == bodyPos = Len(bodyData) /\ bodyEnd = "eof"

\* The next value is in the decoder's buffer: decoding it takes no read of
\* the body.
Buffered == bodyPos < decBuf

\* decoder.Decode returns: at once when the decoder keeps an error or has a
\* value in its buffer, else when its read of the body returns (the read
\* blocks while the body is open and silent).
CanDecode ==
    decErr # Nil \/ Buffered \/ body = "closed" \/ Readable \/ AtEOF

\* The error decoder.Decode returns, or Nil.  An error the decoder keeps is
\* returned again without a read; a buffered value is decoded without a
\* read; a read of a closed body fails.
DecodeErr ==
    IF decErr # Nil THEN decErr
    ELSE IF Buffered \/ (body # "closed" /\ Readable)
      THEN ValueErr(bodyData[bodyPos + 1])
    ELSE IF body = "closed" THEN Some(ErrClosedBody)
    ELSE Some(EOF)

\* What decoder.Decode leaves in the decoder.  A read takes one or more of
\* the values the body holds into the buffer.  A syntax error and the error
\* of a read (io.EOF too) are kept and the input is not consumed; a type
\* error is not kept, and its value is consumed like a decoded one.
DecoderAfter ==
    /\ decErr' = IF DecodeErr \in {Nil, Some(TypeError)} THEN decErr
                 ELSE DecodeErr
    /\ decBuf' \in IF decErr = Nil /\ ~Buffered /\ body # "closed" /\ Readable
                     THEN (bodyPos + 1)..Len(bodyData)
                     ELSE {decBuf}
    /\ bodyPos' = IF DecodeErr \in {Nil, Some(TypeError)} THEN bodyPos + 1
                  ELSE bodyPos

\* The envelope decoder.Decode fills in when it returns no error.
Decoded == DecodeEnvelope(bodyData[bodyPos + 1].members)

\* fmt.Errorf("decode envelope: %v", err)
DecodeEnvelopeError(e) == "decode envelope: " \o e

\* The unit is an envelope whose Type is in types.
HasType(u, types) == u.Envelope # Nil /\ u.Envelope[1].Type \in types

(* ------------------------------------------------------------------ state *)

\* The supervisor's own state, which no stage touches.
rsVars == <<version, delay, pc, streamCtx, err, inCh, inBuf, open, sent,
            ended, sinceConnect, sinceEnd>>

\* What a stage never writes.
fixedVars == <<rsVars, clVars, stage, pingTimeout, bodyEnd>>

decVars == <<bodyPos, decErr, decBuf, dpc, dUnit>>

\* The clocks of the runs with regular PINGs.
runVars == <<sinceArrival, elapsed>>

timeVars == <<deadline, timer, sincePing>>

\* The supervisor is not running.
ReconnectOff ==
    /\ version = 2
    /\ delay = 0
    /\ pc = "off"
    /\ streamCtx = "none"
    /\ err = Nil
    /\ inCh = "nil"
    /\ inBuf = <<>>
    /\ open = FALSE
    /\ sent = <<>>
    /\ ended = "none"
    /\ sinceConnect = 0
    /\ sinceEnd = 0
    /\ ClientOff

\* The state when envelopeStream or pingFilter has started its goroutines
\* on a body.
StageStart ==
    /\ ReconnectOff
    /\ ctxDone = FALSE
    /\ msg = ZeroUnit
    /\ envelope = ZeroUnit
    /\ envelopeReady = FALSE
    /\ outClosed = FALSE
    /\ recvWaiting = FALSE
    /\ received = <<>>
    /\ body = "open"
    /\ bodyPos = 0
    /\ decErr = Nil
    /\ decBuf = 0
    /\ dpc = IF stage \in {"ping", "eos"} THEN "off" ELSE "decode"
    /\ dUnit = ZeroUnit
    /\ epc = IF stage = "staged" THEN "off" ELSE "select"
    /\ deadline = -1
    /\ timer = IF stage \in {"staged", "eos"} THEN 0 ELSE pingTimeout
    /\ cancelled = FALSE
    /\ exit = "none"
    /\ sincePing = 0
    /\ sinceArrival = 0
    /\ elapsed = 0

EInit ==
    /\ stage \in {"staged", "fused", "ping", "eos"}
    /\ pingTimeout \in 1..MaxTimeout
    /\ bodyData \in Bodies
    /\ bodyEnd \in {"eof", "stall"}
    /\ StageStart

(* ------------------------------------------------------------------ clock *)

Max(a, b) == IF a > b THEN a ELSE b

\* One tick for the timer, the deadline and the PING clock.
TickClocks ==
    /\ timer' = Max(timer - 1, 0)
    /\ deadline' = Max(deadline - 1, -1)
    /\ sincePing' = Min(sincePing + 1, pingTimeout + 1)

\* One tick of wall-clock time while a stage with a timer runs.
ETick ==
    /\ stage \in {"fused", "ping"}
    /\ exit = "none"
    /\ TickClocks
    /\ UNCHANGED <<fixedVars, ctxDone, msg, envelope, envelopeReady, epc,
                   exit, outVars, body, bodyData, decVars, cancelled,
                   runVars>>

(* ------------------------------------------- staged envelopeStream, 24-59 *)

\* decoder.Decode(e) of line 36 and the branches on its result.
SDecode ==
    /\ stage = "staged"
    /\ dpc = "decode"
    /\ CanDecode
    /\ DecoderAfter
    /\ IF DecodeErr = Some(EOF)
         THEN /\ dpc' = "closeBody"
              /\ exit' = "eof"
              /\ UNCHANGED dUnit
         ELSE IF DecodeErr # Nil
           THEN /\ dUnit' = ErrorUnit(DecodeEnvelopeError(DecodeErr[1]))
                /\ dpc' = "sendErr"
                /\ UNCHANGED exit
           ELSE /\ dUnit' = [Envelope |-> Some(Decoded), Err |-> Nil]
                /\ dpc' = "send"
                /\ UNCHANGED exit
    /\ UNCHANGED <<fixedVars, ctxDone, msg, envelope, envelopeReady, epc,
                   outVars, body, bodyData, cancelled, timeVars,
                   runVars>>

\* The send cases of lines 42 and 50.
SSend ==
    /\ stage = "staged"
    /\ dpc \in {"send", "sendErr"}
    /\ OutSend(dUnit)
    /\ dpc' = IF dpc = "sendErr" THEN "closeBody" ELSE "decode"
    /\ exit' = IF dpc = "sendErr" THEN "sent_err" ELSE exit
    /\ UNCHANGED <<fixedVars, ctxDone, msg, envelope, envelopeReady, epc,
                   body, bodyData, bodyPos, decErr, decBuf,
                   dUnit, cancelled, timeVars,
                   runVars>>

\* The <-ctx.Done() cases of lines 44 and 52.
SCtxDone ==
    /\ stage = "staged"
    /\ dpc \in {"send", "sendErr"}
    /\ ctxDone
    /\ dpc' = "closeBody"
    /\ exit' = "ctx"
    /\ UNCHANGED <<fixedVars, ctxDone, msg, envelope, envelopeReady, epc,
                   outVars, body, bodyData, bodyPos, decErr, decBuf,
                   dUnit, cancelled,
                   timeVars, runVars>>

\* defer body.Close() of line 29, the first deferred call to run.
SDeferCloseBody ==
    /\ stage = "staged"
    /\ dpc = "closeBody"
    /\ body' = "closed"
    /\ dpc' = "closeOut"
    /\ UNCHANGED <<fixedVars, ctxDone, msg, envelope, envelopeReady, epc,
                   exit, outVars, bodyData, bodyPos, decErr, decBuf,
                   dUnit, cancelled,
                   timeVars, runVars>>

\* defer close(out) of line 28, the last deferred call to run.
SDeferCloseOut ==
    /\ stage = "staged"
    /\ dpc = "closeOut"
    /\ outClosed' = TRUE
    /\ recvWaiting' = FALSE
    /\ dpc' = "done"
    /\ UNCHANGED <<fixedVars, ctxDone, msg, envelope, envelopeReady, epc,
                   exit, received, body, bodyData, bodyPos, decErr, decBuf,
                   dUnit, cancelled,
                   timeVars, runVars>>

(* ------------------------------------------ fused envelopeStream, 228-314 *)

\* ctx.Done() of the context derived at line 246 is closed.
InnerDone == ctxDone \/ cancelled

\* decodeEnvelope(decoder) of line 305: the unit of line 308.
DDecode ==
    /\ stage = "fused"
    /\ dpc = "decode"
    /\ CanDecode
    /\ dUnit' = IF DecodeErr = Nil
                  THEN [Envelope |-> Some(Decoded), Err |-> Nil]
                  ELSE [Envelope |-> Nil, Err |-> DecodeErr]
    /\ DecoderAfter
    /\ dpc' = "send"
    /\ UNCHANGED <<fixedVars, ctxDone, msg, envelope, envelopeReady, epc,
                   exit, outVars, body, bodyData, cancelled, timeVars,
                   runVars>>

\* case <-ctx.Done() of line 310.
DCtxDone ==
    /\ stage = "fused"
    /\ dpc = "send"
    /\ InnerDone
    /\ dpc' = "done"
    /\ UNCHANGED <<fixedVars, ctxDone, msg, envelope, envelopeReady, epc,
                   exit, outVars, body, bodyData, bodyPos, decErr, decBuf,
                   dUnit, cancelled,
                   timeVars, runVars>>

\* case envelope = <-inCh of lines 274-283, together with the send of line
\* 308 it meets.  endErrs are the errors that end the stream without being
\* delivered, pushTypes the envelope types that push the deadline.
FusedTake(endErrs, pushTypes) ==
    /\ stage = "fused"
    /\ epc = "select"
    /\ ~envelopeReady
    /\ dpc = "send"
    /\ envelope' = dUnit
    /\ envelopeReady' = TRUE
    /\ dpc' = "decode"
    /\ IF dUnit.Err \in endErrs
         THEN /\ epc' = "cancel"
              /\ exit' = "eof"
              /\ UNCHANGED timeVars
         ELSE /\ UNCHANGED <<epc, exit, timer>>
              /\ deadline' = IF HasType(dUnit, pushTypes)
                               THEN pingTimeout ELSE deadline
              /\ sincePing' = IF HasType(dUnit, {"PING"})
                                THEN 0 ELSE sincePing
    /\ UNCHANGED <<fixedVars, ctxDone, msg, outVars, body, bodyData, bodyPos,
                   decErr, decBuf,
                   dUnit, cancelled, runVars>>

\* Mutant of FRecv: the decoder's channel is received from while a unit
\* is pending, and the unit taken replaces the pending one.
FRecvOverwrites ==
    /\ stage = "fused"
    /\ epc = "select"
    /\ dpc = "send"
    /\ envelope' = dUnit
    /\ envelopeReady' = TRUE
    /\ dpc' = "decode"
    /\ IF dUnit.Err = Some(EOF)
         THEN /\ epc' = "cancel"
              /\ exit' = "eof"
              /\ UNCHANGED timeVars
         ELSE /\ UNCHANGED <<epc, exit, timer>>
              /\ deadline' = IF HasType(dUnit, {"PING"})
                               THEN pingTimeout ELSE deadline
              /\ sincePing' = IF HasType(dUnit, {"PING"})
                                THEN 0 ELSE sincePing
    /\ UNCHANGED <<fixedVars, ctxDone, msg, outVars, body, bodyData, bodyPos,
                   decErr, decBuf,
                   dUnit, cancelled, runVars>>

\* Mutant of FRecv: io.EOF is forwarded like any other error.
FRecvForwardsEOF == FusedTake({}, {"PING"})

\* Mutant of FRecv: a PING does not push the deadline.
FRecvNoPush == FusedTake({Some(EOF)}, {})

\* Mutant of FRecv: every envelope pushes the deadline.
FRecvAnyPush == FusedTake({Some(EOF)}, {"PING", "DATA", "END_OF_STREAM"})

FRecv == FusedTake({Some(EOF)}, {"PING"})

\* case outCh <- envelope of lines 263-273.  errReturns: an error unit ends
\* the stream; endTypes: the envelope types that end it.
FusedDeliver(errReturns, endTypes) ==
    /\ stage = "fused"
    /\ epc = "select"
    /\ envelopeReady
    /\ OutSend(envelope)
    /\ envelopeReady' = FALSE
    /\ IF envelope.Err # Nil /\ errReturns
         THEN /\ epc' = "cancel"
              /\ exit' = "sent_err"
         ELSE IF HasType(envelope, endTypes)
           THEN /\ epc' = "cancel"
                /\ exit' = "sent_eos"
           ELSE UNCHANGED <<epc, exit>>
    /\ UNCHANGED <<fixedVars, ctxDone, msg, envelope, body, bodyData,
                   decVars, cancelled, timeVars, runVars>>

\* Mutant of FSend: the stream goes on after it delivered an error.
FSendGoesOnAfterError == FusedDeliver(FALSE, {"END_OF_STREAM"})

\* Mutant of FSend: END_OF_STREAM does not end the stream.
FSendIgnoresEndOfStream == FusedDeliver(TRUE, {})

FSend == FusedDeliver(TRUE, {"END_OF_STREAM"})

\* Mutant of DeadlineBefore: the deadline is never taken to have passed.
DeadlineNeverBefore == FALSE

\* Mutant of DeadlineBefore: every wake-up finds the deadline passed.
DeadlineAlwaysBefore == TRUE

\* deadline.Before(now) of line 287.
DeadlineBefore == deadline < 0

\* Mutant of FWake: a passed deadline is reported on out before the return.
FWakeReportsTimeout ==
    /\ stage = "fused"
    /\ epc = "select"
    /\ timer = 0
    /\ IF DeadlineBefore
         THEN /\ epc' = "cancel"
              /\ exit' = "deadline"
              /\ received' = Append(received, ErrorUnit("ping timeout"))
              /\ UNCHANGED <<timer, outClosed, recvWaiting>>
         ELSE /\ timer' = deadline
              /\ UNCHANGED <<epc, exit, outVars>>
    /\ UNCHANGED <<fixedVars, ctxDone, msg, envelope, envelopeReady,
                   body, bodyData, decVars, cancelled, deadline,
                   sincePing, runVars>>

\* case <-deadlineCh of lines 284-291.
FWake ==
    /\ stage = "fused"
    /\ epc = "select"
    /\ timer = 0
    /\ IF DeadlineBefore
         THEN /\ epc' = "cancel"
              /\ exit' = "deadline"
              /\ UNCHANGED timer
         ELSE /\ timer' = deadline
              /\ UNCHANGED <<epc, exit>>
    /\ UNCHANGED <<fixedVars, ctxDone, msg, envelope, envelopeReady,
                   outVars, body, bodyData, decVars, cancelled, deadline,
                   sincePing, runVars>>

\* case <-ctx.Done() of line 292.
FCtxDone ==
    /\ stage = "fused"
    /\ epc = "select"
    /\ ctxDone
    /\ epc' = "cancel"
    /\ exit' = "ctx"
    /\ UNCHANGED <<fixedVars, ctxDone, msg, envelope, envelopeReady,
                   outVars, body, bodyData, decVars, cancelled, timeVars,
                   runVars>>

\* defer cancel() of line 247, the first deferred call to run.
FDeferCancel ==
    /\ stage = "fused"
    /\ epc = "cancel"
    /\ cancelled' = TRUE
    /\ epc' = "closeOut"
    /\ UNCHANGED <<fixedVars, ctxDone, msg, envelope, envelopeReady, exit,
                   outVars, body, bodyData, decVars, timeVars,
                   runVars>>

\* defer close(out) of line 233, the second deferred call to run.
FDeferCloseOut ==
    /\ stage = "fused"
    /\ epc = "closeOut"
    /\ outClosed' = TRUE
    /\ recvWaiting' = FALSE
    /\ epc' = "closeBody"
    /\ UNCHANGED <<fixedVars, ctxDone, msg, envelope, envelopeReady, exit,
                   received, body, bodyData, decVars, cancelled, timeVars,
                   runVars>>

\* Mutant of FDeferCloseBody: the stream returns without closing the body.
FDeferLeavesBodyOpen ==
    /\ stage = "fused"
    /\ epc = "closeBody"
    /\ epc' = "done"
    /\ UNCHANGED <<fixedVars, ctxDone, msg, envelope, envelopeReady, exit,
                   outVars, body, bodyData, decVars, cancelled, timeVars,
                   runVars>>

\* defer body.Close() of line 232, the last deferred call to run.
FDeferCloseBody ==
    /\ stage = "fused"
    /\ epc = "closeBody"
    /\ body' = "closed"
    /\ epc' = "done"
    /\ UNCHANGED <<fixedVars, ctxDone, msg, envelope, envelopeReady, exit,
                   outVars, bodyData, decVars, cancelled, timeVars,
                   runVars>>

(* ------------------------------------------------------ pingFilter, 61-114 *)

\* The staged envelopeStream behind `in' has returned after sending an
\* error unit.
UpstreamEnded == bodyPos > 0 /\ bodyData[bodyPos].json # "object"

\* A receive from in yields (unit, true).
PingInReady == Readable /\ ~UpstreamEnded

\* A receive from in yields (zero, false).
PingInClosed == UpstreamEnded \/ AtEOF

\* The unit the staged envelopeStream sends for a value of the body.
StagedUnit(v) ==
    IF v.json = "object"
      THEN [Envelope |-> Some(DecodeEnvelope(v.members)), Err |-> Nil]
      ELSE ErrorUnit(DecodeEnvelopeError(ValueErr(v)[1]))

\* The unit decodeEnvelopes sends for a value of the body.
FusedUnit(v) ==
    IF v.json = "object"
      THEN [Envelope |-> Some(DecodeEnvelope(v.members)), Err |-> Nil]
      ELSE ErrorUnit(ValueErr(v)[1])

\* case msg, ok := <-in with ok true, lines 91-101.  resetTypes are the
\* envelope types that restart the timer; timer.Stop() reports false when
\* the timer has expired.
PingTake(resetTypes) ==
    /\ stage = "ping"
    /\ epc = "select"
    /\ PingInReady
    /\ msg' = StagedUnit(bodyData[bodyPos + 1])
    /\ bodyPos' = bodyPos + 1
    /\ sincePing' = IF HasType(StagedUnit(bodyData[bodyPos + 1]), {"PING"})
                      THEN 0 ELSE sincePing
    /\ IF HasType(StagedUnit(bodyData[bodyPos + 1]), resetTypes)
         THEN IF timer = 0
                THEN /\ epc' = "closeOut"
                     /\ exit' = "stop"
                     /\ UNCHANGED timer
                ELSE /\ timer' = pingTimeout
                     /\ epc' = "send"
                     /\ UNCHANGED exit
         ELSE /\ epc' = "send"
              /\ UNCHANGED <<exit, timer>>
    /\ UNCHANGED deadline
    /\ UNCHANGED <<fixedVars, ctxDone, envelope, envelopeReady, outVars,
                   body, bodyData, decErr, decBuf, dpc,
                   dUnit, cancelled, runVars>>

\* Mutant of PRecv: the result of timer.Stop() is ignored, so a PING
\* restarts a timer that has expired.
PRecvRearmsExpired ==
    /\ stage = "ping"
    /\ epc = "select"
    /\ PingInReady
    /\ msg' = StagedUnit(bodyData[bodyPos + 1])
    /\ bodyPos' = bodyPos + 1
    /\ sincePing' = IF HasType(StagedUnit(bodyData[bodyPos + 1]), {"PING"})
                      THEN 0 ELSE sincePing
    /\ timer' = IF HasType(StagedUnit(bodyData[bodyPos + 1]), {"PING"})
                  THEN pingTimeout ELSE timer
    /\ epc' = "send"
    /\ UNCHANGED <<exit, deadline>>
    /\ UNCHANGED <<fixedVars, ctxDone, envelope, envelopeReady, outVars,
                   body, bodyData, decErr, decBuf, dpc,
                   dUnit, cancelled, runVars>>

\* Mutant of PRecv: every envelope restarts the timer.
PRecvAnyReset == PingTake({"PING", "DATA", "END_OF_STREAM"})

PRecv == PingTake({"PING"})

\* A return from the select of line 86.
PingReturn(how) ==
    /\ stage = "ping"
    /\ epc' = "closeOut"
    /\ exit' = how
    /\ UNCHANGED <<fixedVars, ctxDone, msg, envelope, envelopeReady,
                   outVars, body, bodyData, decVars, cancelled, timeVars,
                   runVars>>

\* case msg, ok := <-in with ok false, lines 91-94.
PRecvClosed == epc = "select" /\ PingInClosed /\ PingReturn("closed")

\* case <-timer.C of line 89.
PTimer == epc = "select" /\ timer = 0 /\ PingReturn("timer")

\* case <-ctx.Done() of line 87.
PCtxDone == epc = "select" /\ ctxDone /\ PingReturn("ctx")

\* case <-ctx.Done() of line 106.
PSendCtxDone == epc = "send" /\ ctxDone /\ PingReturn("ctx")

\* Mutant of PSend: a PING is consumed by the filter and not forwarded.
PSendDropsPing ==
    /\ stage = "ping"
    /\ epc = "send"
    /\ IF HasType(msg, {"PING"}) THEN UNCHANGED outVars ELSE OutSend(msg)
    /\ epc' = "select"
    /\ UNCHANGED <<fixedVars, ctxDone, msg, envelope, envelopeReady, exit,
                   body, bodyData, decVars, cancelled, timeVars,
                   runVars>>

\* case out <- msg of line 104.
PSend ==
    /\ stage = "ping"
    /\ epc = "send"
    /\ OutSend(msg)
    /\ epc' = "select"
    /\ UNCHANGED <<fixedVars, ctxDone, msg, envelope, envelopeReady, exit,
                   body, bodyData, decVars, cancelled, timeVars,
                   runVars>>

\* The deferred calls of lines 69-84 (the timer is stopped and drained) and
\* of line 65, close(out).
PDeferCloseOut ==
    /\ stage = "ping"
    /\ epc = "closeOut"
    /\ outClosed' = TRUE
    /\ recvWaiting' = FALSE
    /\ epc' = "done"
    /\ UNCHANGED <<fixedVars, ctxDone, msg, envelope, envelopeReady, exit,
                   received, body, bodyData, decVars, cancelled, timeVars,
                   runVars>>

(* ---------------------------------------------- endOfStreamFilter, 116-146 *)

\* case msg, ok := <-in with ok true, line 126.
EosRecv ==
    /\ stage = "eos"
    /\ epc = "select"
    /\ PingInReady
    /\ msg' = StagedUnit(bodyData[bodyPos + 1])
    /\ bodyPos' = bodyPos + 1
    /\ epc' = "send"
    /\ UNCHANGED <<fixedVars, ctxDone, envelope, envelopeReady, exit,
                   outVars, body, bodyData, decErr, decBuf, dpc,
                   dUnit, cancelled, timeVars,
                   runVars>>

\* A return of the goroutine of endOfStreamFilter.
EosReturn(how) ==
    /\ stage = "eos"
    /\ epc' = "closeOut"
    /\ exit' = how
    /\ UNCHANGED <<fixedVars, ctxDone, msg, envelope, envelopeReady,
                   outVars, body, bodyData, decVars, cancelled, timeVars,
                   runVars>>

\* case msg, ok := <-in with ok false, lines 126-129.
EosRecvClosed == epc = "select" /\ PingInClosed /\ EosReturn("closed")

\* case <-ctx.Done() of line 124.
EosCtxDone == epc = "select" /\ ctxDone /\ EosReturn("ctx")

\* case <-ctx.Done() of line 134.
EosSendCtxDone == epc = "send" /\ ctxDone /\ EosReturn("ctx")

\* case out <- msg of line 132 and the test of lines 138-140.  endTypes are
\* the envelope types after which the filter returns.
EosDeliver(endTypes) ==
    /\ stage = "eos"
    /\ epc = "send"
    /\ OutSend(msg)
    /\ IF HasType(msg, endTypes)
         THEN /\ epc' = "closeOut"
              /\ exit' = "sent_eos"
         ELSE /\ epc' = "select"
              /\ UNCHANGED exit
    /\ UNCHANGED <<fixedVars, ctxDone, msg, envelope, envelopeReady, body,
                   bodyData, decVars, cancelled, timeVars, runVars>>

\* Mutant of EosSend: the filter goes on after END_OF_STREAM.
EosSendIgnoresEndOfStream == EosDeliver({})

EosSend == EosDeliver({"END_OF_STREAM"})

\* defer close(out) of line 120.
EosDeferCloseOut ==
    /\ stage = "eos"
    /\ epc = "closeOut"
    /\ outClosed' = TRUE
    /\ recvWaiting' = FALSE
    /\ epc' = "done"
    /\ UNCHANGED <<fixedVars, ctxDone, msg, envelope, envelopeReady, exit,
                   received, body, bodyData, decVars, cancelled, timeVars,
                   runVars>>

(* ---------------------------------------------------------- specification *)

ENext ==
    \/ Cancel
    \/ CallerWait
    \/ ETick
    \/ SDecode
    \/ SSend
    \/ SCtxDone
    \/ SDeferCloseBody
    \/ SDeferCloseOut
    \/ DDecode
    \/ DCtxDone
    \/ FRecv
    \/ FSend
    \/ FWake
    \/ FCtxDone
    \/ FDeferCancel
    \/ FDeferCloseOut
    \/ FDeferCloseBody
    \/ PRecv
    \/ PRecvClosed
    \/ PTimer
    \/ PCtxDone
    \/ PSend
    \/ PSendCtxDone
    \/ PDeferCloseOut
    \/ EosRecv
    \/ EosRecvClosed
    \/ EosCtxDone
    \/ EosSend
    \/ EosSendCtxDone
    \/ EosDeferCloseOut

\* Every behaviour of one stage on one body.
ESpec == EInit /\ [][ENext]_vars

\* The stage has returned and run its deferred calls.
Finished == (stage = "staged" /\ dpc = "done") \/
            (stage \in {"fused", "ping", "eos"} /\ epc = "done")

Last(s) == s[Len(s)]

(* ----------------------------------------------- claims on envelopeStream *)

\* The unit received at position i carries an error.
IsErrorAt(i) == received[i].Err # Nil

\* The error unit each envelopeStream builds for a value that is not JSON.
SyntaxErrorUnit ==
    IF stage = "staged"
      THEN ErrorUnit(DecodeEnvelopeError(SyntaxError))
      ELSE ErrorUnit(SyntaxError)

\* C13: for malformed JSON (and for a value of the wrong type) both
\* versions of envelopeStream deliver one unit with the decode error and a
\* nil Envelope; that unit is the last one delivered, at most one error
\* unit is ever delivered, and when the stream has returned after it the
\* output channel and the body are closed.  A value that is not JSON is
\* never consumed.
C13_OneDecodeErrorThenClose ==
    stage \in {"staged", "fused"} =>
        /\ \A i \in 1..Len(received) :
               IsErrorAt(i) =>
                   /\ i = Len(received)
                   /\ bodyData[i].json # "object"
                   /\ received[i] = IF stage = "staged"
                                      THEN StagedUnit(bodyData[i])
                                      ELSE FusedUnit(bodyData[i])
                   /\ bodyData[i] = Garbage =>
                          (bodyPos + 1 = i /\ received[i] = SyntaxErrorUnit)
                   /\ exit \in {"none", "sent_err"}
        /\ exit = "sent_err" => received # <<>> /\ IsErrorAt(Len(received))
        /\ (Finished /\ exit = "sent_err") =>
               outClosed /\ body = "closed"

\* Both versions have delivered the error of a malformed value that follows
\* a well-formed one, and have returned.
C13_Witness ==
    /\ stage \in {"staged", "fused"}
    /\ Finished
    /\ exit = "sent_err"
    /\ Len(received) = 2
    /\ received[2] = SyntaxErrorUnit
    /\ outClosed
    /\ body = "closed"

\* C14: the fused envelopeStream delivers END_OF_STREAM as its last unit,
\* whatever follows it in the body, and then closes out and the body.
C14_EndOfStreamIsLast ==
    stage = "fused" =>
        /\ \A i \in 1..Len(received) :
               HasType(received[i], {"END_OF_STREAM"}) =>
                   /\ i = Len(received)
                   /\ exit \in {"none", "sent_eos"}
        /\ exit = "sent_eos" =>
               /\ received # <<>>
               /\ HasType(Last(received), {"END_OF_STREAM"})
        /\ (Finished /\ exit = "sent_eos") => outClosed /\ body = "closed"

\* The fused stream returned after END_OF_STREAM with a value left behind it
\* in the body.
C14_Witness ==
    /\ stage = "fused"
    /\ Finished
    /\ exit = "sent_eos"
    /\ Len(bodyData) = 2
    /\ bodyData[1] = EndOfStreamValue
    /\ Len(received) = 1
    /\ outClosed
    /\ body = "closed"

(* ------------------------------------------------ claims on the heartbeat *)

\* Go runs a goroutine whose select has a ready case, and the clock goes on.
EFairness ==
    /\ WF_vars(ETick)
    /\ WF_vars(FWake \/ FCtxDone \/ FDeferCancel \/ FDeferCloseOut
                \/ FDeferCloseBody)
    /\ WF_vars(PTimer \/ PCtxDone \/ PRecvClosed \/ PDeferCloseOut)

ELiveSpec == ESpec /\ EFairness

\* The writer of the body stays silent and everything it wrote has been
\* read.  (pingFilter looks at its timer only in the select of line 86.)
Silent ==
    /\ bodyEnd = "stall"
    /\ bodyPos = Len(bodyData)
    /\ stage = "fused" \/ (stage = "ping" /\ epc = "select")

\* C15: when nothing more arrives from the transport, the stage eventually
\* closes its output channel, and the fused envelopeStream also closes the
\* body (a write to a closed body fails).
C15_SilenceEndsStream ==
    Silent ~> (outClosed /\ (stage = "fused" => body = "closed"))

\* The fused stream ended on its deadline over a silent body.
C15_Witness ==
    /\ stage = "fused"
    /\ bodyEnd = "stall"
    /\ exit = "deadline"
    /\ ~ctxDone
    /\ outClosed
    /\ body = "closed"

\* A PING reaches the transport.
Arrive ==
    /\ stage \in {"fused", "ping"}
    /\ bodyEnd = "stall"
    /\ Len(bodyData) < MaxPings
    /\ bodyData' = Append(bodyData, PingValue)
    /\ sinceArrival' = 0
    /\ UNCHANGED <<fixedVars, ctxDone, msg, envelope, envelopeReady, epc,
                   exit, outVars, body, decVars, cancelled, timeVars,
                   elapsed>>

\* The sender is done: defer close(in) of the goroutine that feeds
\* pingFilter, the writer closing its end of the body for the fused stream.
CloseIn ==
    /\ stage \in {"fused", "ping"}
    /\ bodyEnd = "stall"
    /\ bodyEnd' = "eof"
    /\ UNCHANGED <<rsVars, clVars, stage, pingTimeout, ctxDone, msg,
                   envelope, envelopeReady, epc, exit, outVars, body,
                   bodyData, decVars, cancelled, timeVars, runVars>>

\* One tick of time in a run where, until the sender is done, a PING is
\* sent at least every pingTimeout/2 and every unit is decoded, forwarded
\* and received before the clock moves on.
PromptTick ==
    /\ exit = "none"
    /\ Len(received) = Len(bodyData)
    /\ (bodyEnd = "stall" /\ Len(bodyData) < MaxPings) =>
           sinceArrival < pingTimeout \div 2
    /\ TickClocks
    /\ sinceArrival' = Min(sinceArrival + 1, pingTimeout)
    /\ elapsed' = Min(elapsed + 1, pingTimeout + 1)
    /\ UNCHANGED <<fixedVars, ctxDone, msg, envelope, envelopeReady, epc,
                   exit, outVars, body, bodyData, decVars, cancelled>>

PingInit ==
    /\ stage \in {"fused", "ping"}
    /\ pingTimeout \in 1..MaxTimeout
    /\ bodyData = <<>>
    /\ bodyEnd = "stall"
    /\ StageStart

PingNext ==
    \/ Arrive
    \/ CloseIn
    \/ PromptTick
    \/ CallerWait
    \/ DDecode
    \/ DCtxDone
    \/ FRecv
    \/ FSend
    \/ FWake
    \/ FDeferCancel
    \/ FDeferCloseOut
    \/ FDeferCloseBody
    \/ PRecv
    \/ PRecvClosed
    \/ PSend
    \/ PTimer
    \/ PDeferCloseOut

\* The runs with regular PINGs, until the sender is done, and a prompt
\* consumer.
PingSpec == PingInit /\ [][PingNext]_vars

\* C16: while PINGs arrive at least every pingTimeout/2 and are received
\* promptly, the stage does not end on its heartbeat: it ends on it only
\* after the last PING of the run (the sender is done, or sent MaxPings of
\* them), once the next one is overdue.
C16_RegularPingsKeepStreamAlive ==
    exit \in {"deadline", "timer", "stop"} =>
        /\ Len(bodyData) = MaxPings \/ bodyEnd = "eof"
        /\ sinceArrival > pingTimeout \div 2

\* Every PING of the run was received while the stage was still running,
\* more than pingTimeout after the start.
C16_Witness ==
    /\ elapsed > pingTimeout
    /\ Len(received) = MaxPings
    /\ \A i \in 1..MaxPings : HasType(received[i], {"PING"})
    /\ pingTimeout = MaxTimeout
    /\ sinceArrival = 0
    /\ exit = "none"
    /\ epc = "select"

\* The step takes a PING from the decoder or from in.
TakesPing ==
    \/ /\ stage = "fused"
       /\ ~envelopeReady
       /\ envelopeReady'
       /\ HasType(envelope', {"PING"})
    \/ /\ stage = "ping"
       /\ bodyPos' = bodyPos + 1
       /\ HasType(msg', {"PING"})

\* C17: only a step that takes a PING moves the deadline (fused) or
\* restarts the timer (pingFilter); and a running stage that took no PING
\* for longer than pingTimeout has its timer ready and its deadline passed,
\* whatever other envelopes it delivered.
C17_OnlyPingPushesDeadline ==
    /\ [][((stage = "fused" /\ deadline' > deadline) \/
           (stage = "ping" /\ timer' > timer)) => TakesPing]_vars
    /\ []((stage \in {"fused", "ping"} /\ exit = "none"
                /\ sincePing > pingTimeout) =>
              (timer = 0 /\ (stage = "fused" => DeadlineBefore)))

\* The fused stream delivered two DATA envelopes, no PING, and ended on its
\* deadline.
C17_Witness ==
    /\ stage = "fused"
    /\ Len(received) = 2
    /\ \A i \in 1..2 : HasType(received[i], {"DATA"})
    /\ exit = "deadline"
    /\ Finished

(* --------------------------------------------- claims on the end of input *)

\* C18: no unit carrying io.EOF, bare or wrapped, is received; a stream
\* that ended on end of input delivered no error unit and closes out.
C18_NoUnitForEOF ==
    stage \in {"staged", "fused"} =>
        /\ \A i \in 1..Len(received) :
               /\ received[i].Err # Some(EOF)
               /\ received[i].Err # Some(DecodeEnvelopeError(EOF))
        /\ exit = "eof" => \A i \in 1..Len(received) : ~IsErrorAt(i)
        /\ (Finished /\ exit = "eof") => outClosed

\* The fused stream delivered a whole body and ended on end of input.
C18_Witness ==
    /\ stage = "fused"
    /\ Finished
    /\ exit = "eof"
    /\ Len(received) = 2
    /\ outClosed

\* The Go field each JSON member is decoded into: the struct tags of
\* Envelope and of Message.
GoField(k) ==
    CASE k = "envelopeType" -> "Type"
      [] k = "partition" -> "Partition"
      [] k = "key" -> "Key"
      [] k = "offset" -> "Offset"
      [] k = "topic" -> "Topic"
      [] k = "createTime" -> "CreateTime"
      [] k = "pipelineMessage" -> "Message"
      [] k = "syncMarker" -> "SyncMarker"
      [] k = "imsOrg" -> "ImsOrg"
      [] k = "locations" -> "Locations"
      [] k = "source" -> "Source"
      [] k = "value" -> "Value"

\* The zero value of a field of Envelope or of Message.
Zero(f) ==
    CASE f \in {"Partition", "Offset", "CreateTime"} -> 0
      [] f = "Locations" -> <<>>
      [] f = "Message" ->
             [ImsOrg |-> "", Key |-> "", Locations |-> <<>>, Source |-> "",
              Value |-> ""]
      [] OTHER -> ""

\* Struct e equals JSON object m field for field: every member is in its
\* field, a nested object field for field, a raw value as its JSON text;
\* and the other fields are zero.
RECURSIVE FieldForField(_, _)
FieldForField(e, m) ==
    /\ \A k \in DOMAIN m :
           CASE k = "pipelineMessage" -> FieldForField(e[GoField(k)], m[k])
             [] k = "value" -> e[GoField(k)] = "\"" \o m[k] \o "\""
             [] OTHER -> e[GoField(k)] = m[k]
    /\ \A f \in DOMAIN e :
           (\A k \in DOMAIN m : GoField(k) # f) => e[f] = Zero(f)

\* Every value of the body is a JSON object.
WellFormed == \A i \in 1..Len(bodyData) : bodyData[i].json = "object"

\* C19: the staged envelopeStream delivers the values of the body in order,
\* each as a unit with nil Err whose envelope equals the value field for
\* field; for a well-formed body that ends, and without cancellation, it
\* has delivered all of them when it returns, and out is closed.
C19_DeliversEveryEnvelope ==
    stage = "staged" =>
        /\ Len(received) <= Len(bodyData)
        /\ \A i \in 1..Len(received) :
               bodyData[i].json = "object" =>
                   /\ received[i].Err = Nil
                   /\ received[i].Envelope # Nil
                   /\ FieldForField(received[i].Envelope[1],
                                    bodyData[i].members)
        /\ (Finished /\ WellFormed /\ exit # "ctx") =>
               /\ exit = "eof"
               /\ Len(received) = Len(bodyData)
               /\ outClosed

\* The staged stream delivered a body of MaxBody envelopes that begins with
\* a DATA envelope, and returned.
C19_Witness ==
    /\ stage = "staged"
    /\ Finished
    /\ exit = "eof"
    /\ Len(bodyData) = MaxBody
    /\ bodyData[1] = DataValue
    /\ Len(received) = MaxBody
    /\ outClosed

\* C20 (as claimed): whenever the output channel of the fused envelopeStream
\* is closed, the body is closed.
C20_OutClosedOnlyAfterBodyClosed ==
    (stage = "fused" /\ outClosed) => body = "closed"

(* -------------------------------------------------- claims on the units *)

\* The supervisor on an abstract source, or one stage on one body.
CoreSpec == (Init \/ EInit) /\ [][Next \/ ENext]_vars

\* Exactly one of Envelope and Err is non-nil.
ExactlyOne(u) == (u.Envelope # Nil) # (u.Err # Nil)

\* C21: every unit a consumer received from envelopeStream, from a filter
\* or from reconnectStream, every unit the decoder is handing off, and every
\* unit a stage or the supervisor holds for its next send, has exactly one
\* of Envelope and Err non-nil.
C21_ExactlyOneOfEnvelopeAndErr ==
    /\ \A i \in 1..Len(received) : ExactlyOne(received[i])
    /\ dpc \in {"send", "sendErr"} => ExactlyOne(dUnit)
    /\ envelopeReady => ExactlyOne(envelope)
    /\ (pc = "forward" \/ (stage \in {"ping", "eos"} /\ epc = "send")) =>
           ExactlyOne(msg)
    /\ pc = "sendErr" => err # Nil

\* The consumer of the fused envelopeStream received an envelope and then
\* an error unit.
C21_Witness ==
    /\ stage = "fused"
    /\ Len(received) = 2
    /\ received[1].Envelope # Nil
    /\ received[1].Err = Nil
    /\ received[2].Envelope = Nil
    /\ received[2].Err # Nil

\* C22 (as claimed): a stage that ended because its heartbeat deadline
\* elapsed has delivered an error unit for it as its last unit.
C22_TimeoutSurfacedAsError ==
    (stage \in {"fused", "ping"} /\ Finished
        /\ exit \in {"deadline", "timer", "stop"}) =>
            (received # <<>> /\ IsErrorAt(Len(received)))

\* C23 (as claimed): the caller never receives the error of the cancelled
\* context, wrapped by reconnectStream as "get stream: context canceled".
C23_CancellationNotSurfaced ==
    \A i \in 1..Len(received) :
        received[i].Err # Some(GetStreamError(Canceled))

(* ------------------------------------------------ the client API calls *)

\* The most calls of c.client.Do explored in one run.
MaxRequests == 2

\* http.StatusOK, http.StatusNoContent, http.StatusInternalServerError
StatusOK == 200

StatusNoContent == 204

StatusInternalServerError == 500

\* The default of ReceiveRequest.reconnectionDelay(), in seconds.
DefaultReconnectionDelay == 5

\* The default the documentation of ReceiveRequest.ReconnectionDelay states,
\* in seconds.
DocumentedReconnectionDelay == 10

\* The values of ClientConfig.PipelineURL tried.
URLs == {":", "www.acme.com", ""}

\* url.Parse(u): of the URLs tried only ":" is rejected.
ParseError(u) ==
    IF u = ":" THEN Some("parse \":\": missing protocol scheme") ELSE Nil

\* A ClientConfig: TokenGetter is "nil" for the nil interface.
Configs == [PipelineURL : URLs, Group : {"", "g"}, TokenGetter : {"nil", "set"}]

\* The Client that NewClient builds from cfg.
ClientOf(c) ==
    [pipelineURL |-> c.PipelineURL, group |-> c.Group,
     tokenGetter |-> c.TokenGetter]

\* Mutant of NewClient: the group is checked before the URL.
NewClientGroupFirst(c) ==
    IF c.Group = ""
      THEN Return(Nil, Some("missing group"))
    ELSE IF ParseError(c.PipelineURL) # Nil
      THEN Return(Nil, Some("malformed URL: " \o ParseError(c.PipelineURL)[1]))
    ELSE IF c.TokenGetter = "nil"
      THEN Return(Nil, Some("missing token getter"))
    ELSE Return(Some(ClientOf(c)), Nil)

\* NewClient(cfg)
NewClient(c) ==
    IF ParseError(c.PipelineURL) # Nil
      THEN Return(Nil, Some("malformed URL: " \o ParseError(c.PipelineURL)[1]))
    ELSE IF c.Group = ""
      THEN Return(Nil, Some("missing group"))
    ELSE IF c.TokenGetter = "nil"
      THEN Return(Nil, Some("missing token getter"))
    ELSE Return(Some(ClientOf(c)), Nil)

\* The configuration of the client that Send, Sync and Receive are called on.
ValidConfig == [PipelineURL |-> "www.acme.com", Group |-> "g",
                TokenGetter |-> "set"]

\* What TokenGetter.Token may return: stringTokenGetter("token") and
\* errorTokenGetter("token error") of the tests.
TokenResults == {Return(Some("token"), Nil), Return(Some(""), Some("token error"))}

\* The body of a response that carries no bytes.
EmptyBody == [json |-> "empty", members |-> [text |-> ""]]

\* The error document of TestReceiveError.
ErrorBody == Object([title |-> "error from the server"])

Response(code, b) == [StatusCode |-> code, Body |-> b]

\* What c.client.Do may return while the context is live: a response, or a
\* transport error.
Responses ==
    {Response(StatusOK, EmptyBody), Response(StatusNoContent, EmptyBody),
     Response(StatusInternalServerError, ErrorBody),
     Response(StatusInternalServerError, Garbage),
     Response(StatusInternalServerError, EmptyBody)}

DoErrors == {"connection refused"}

\* What res.Body.Close() may return.
CloseResults == {Nil, Some("close error")}

\* ReceiveRequest.reconnectionDelay()
reconnectionDelay(d) == IF d > 0 THEN d ELSE DefaultReconnectionDelay

\* The error of json.NewDecoder(res.Body).Decode(&e), Nil if there is none.
DecodeResponseError(b) ==
    CASE b.json = "object" -> Nil
      [] b.json = "empty"  -> Some(EOF)
      [] OTHER             -> Some(SyntaxError)

\* newError(res), as the text of its Error(): the Title of the decoded
\* document, or the wrapped decode error.
newError(r) ==
    IF DecodeResponseError(r.Body) # Nil
      THEN "decode response: " \o DecodeResponseError(r.Body)[1]
      ELSE Member(r.Body.members, "title", "")

\* fmt.Errorf("get authorization token: %v", err) of Send,
\* fmt.Errorf("get token: %v", err) of Sync and receive.
TokenError(o, e) ==
    IF o = "Send" THEN "get authorization token: " \o e
                  ELSE "get token: " \o e

\* The status each call takes for success.
OkStatus(o) == IF o = "Sync" THEN StatusNoContent ELSE StatusOK

\* What c.client.Do may return; the error of the context is returned only
\* when the context is cancelled.
DoResults ==
    {Return(Some(r), Nil) : r \in Responses}
        \cup {Return(Nil, Some(e)) : e \in DoErrors \cup {Canceled}}

\* Everything but the state of the client call.
coreVars == <<rsVars, esVars, ctxDone, msg, envelope, envelopeReady, outVars,
              body>>

\* What a step inside Send, Sync or receive leaves alone.
callVars == <<op, cfg, reqDelay, coreVars>>

\* A call of Send or Sync is running, or the factory of Receive is: the
\* closure of Client.Receive that calls c.receive.
CallRunning ==
    \/ op \in {"Send", "Sync"}
    \/ op = "Receive" /\ pc = "connecting"

\* NewClient(cfg) is called and returns.
NewClientCall ==
    /\ op = "NewClient"
    /\ cpc = "start"
    /\ ret' = NewClient(cfg[1])
    /\ cpc' = "return"
    /\ UNCHANGED <<callVars, token, res, resBody, requests>>

\* token, err := c.tokenGetter.Token(ctx), and the return on its error.  The
\* locals res and err of the call are fresh.
ClientToken(t) ==
    /\ CallRunning
    /\ cpc = "token"
    /\ token' = Some(t)
    /\ res' = Nil
    /\ resBody' = "none"
    /\ IF t.err # Nil
         THEN /\ ret' = Return(Nil, Some(TokenError(op, t.err[1])))
              /\ cpc' = "return"
         ELSE /\ ret' = Return(Nil, Nil)
              /\ cpc' = "do"
    /\ UNCHANGED <<callVars, requests>>

\* Mutant of ClientDo: the request is performed whatever the token getter
\* returned.
ClientDoAnyway(r) ==
    /\ CallRunning
    /\ cpc \in {"do", "return"}
    /\ res = Nil
    /\ r.err = Some(Canceled) => ctxDone
    /\ requests < MaxRequests
    /\ requests' = requests + 1
    /\ res' = Some(r)
    /\ IF r.err # Nil
         THEN /\ ret' = Return(Nil, Some("perform request: " \o r.err[1]))
              /\ cpc' = "return"
              /\ UNCHANGED resBody
         ELSE /\ resBody' = "open"
              /\ cpc' = "status"
              /\ UNCHANGED ret
    /\ UNCHANGED <<callVars, token>>

\* res, err := c.client.Do(req), and the return on its error.
ClientDo(r) ==
    /\ CallRunning
    /\ cpc = "do"
    /\ r.err = Some(Canceled) => ctxDone
    /\ requests < MaxRequests
    /\ requests' = requests + 1
    /\ res' = Some(r)
    /\ IF r.err # Nil
         THEN /\ ret' = Return(Nil, Some("perform request: " \o r.err[1]))
              /\ cpc' = "return"
              /\ UNCHANGED resBody
         ELSE /\ resBody' = "open"
              /\ cpc' = "status"
              /\ UNCHANGED ret
    /\ UNCHANGED <<callVars, token>>

\* The test of res.StatusCode.  Send and Sync return newError(res) or nil and
\* their deferred res.Body.Close() runs, its result dropped.  receive closes
\* the body of a response that is not OK, and returns the error of the close
\* if there is one, else newError(res); it returns the open body of an OK
\* response.
ReturnOfStatus(o, r, ce) ==
    IF r.StatusCode = OkStatus(o)
      THEN Return(IF o = "Receive" THEN Some("body") ELSE Nil, Nil)
    ELSE IF o = "Receive" /\ ce # Nil
      THEN Return(Nil, Some("close response body: " \o ce[1]))
    ELSE Return(Nil, Some(newError(r)))

\* Mutant of ClientStatus: the body of a response is never closed.
ClientStatusLeavesOpen(ce) ==
    /\ CallRunning
    /\ cpc = "status"
    /\ ret' = ReturnOfStatus(op, res[1].value[1], ce)
    /\ resBody' = resBody
    /\ cpc' = "return"
    /\ UNCHANGED <<callVars, token, res, requests>>

ClientStatus(ce) ==
    /\ CallRunning
    /\ cpc = "status"
    /\ ret' = ReturnOfStatus(op, res[1].value[1], ce)
    /\ resBody' = IF op = "Receive" /\ res[1].value[1].StatusCode = StatusOK
                    THEN "open" ELSE "closed"
    /\ cpc' = "return"
    /\ UNCHANGED <<callVars, token, res, requests>>

\* What the return of the closure of Client.Receive leaves alone.
keptVars == <<op, cfg, reqDelay, token, res, resBody, requests, ret, version,
              delay, esVars, ctxDone, streamCtx, inBuf, sent, msg, outVars,
              ended, clockVars>>

\* The closure of Client.Receive returns (nil, err) to reconnectStream.
ReceiveReturnErr ==
    /\ op = "Receive"
    /\ pc = "connecting"
    /\ cpc = "return"
    /\ ret.err # Nil
    /\ err' = ret.err
    /\ pc' = "sendErr"
    /\ cpc' = "token"
    /\ UNCHANGED <<keptVars, inCh, body, loopVars>>

\* The closure of Client.Receive returns envelopeStream(ctx, body, ...) to
\* reconnectStream, which initialises the locals of its forwarding loop.
ReceiveReturnOk ==
    /\ op = "Receive"
    /\ pc = "connecting"
    /\ cpc = "return"
    /\ ret.err = Nil
    /\ err' = Nil
    /\ inCh' = "open"
    /\ body' = "open"
    /\ pc' = "loop"
    /\ envelope' = ZeroUnit
    /\ envelopeReady' = FALSE
    /\ open' = TRUE
    /\ cpc' = "token"
    /\ UNCHANGED keptVars

\* A call of NewClient, Send or Sync on its own, or a call of Receive, whose
\* reconnectStream (the later one of stream.go) runs with the delay that
\* reconnectionDelay() computes and calls the closure of Client.Receive.
ClientInit ==
    /\ op \in {"NewClient", "Send", "Sync", "Receive"}
    /\ cfg \in IF op = "NewClient" THEN {Some(c) : c \in Configs}
                                   ELSE {Some(ValidConfig)}
    /\ reqDelay \in IF op = "Receive" THEN -1..MaxDelay ELSE {0}
    /\ cpc = IF op = "NewClient" THEN "start" ELSE "token"
    /\ token = Nil
    /\ res = Nil
    /\ resBody = "none"
    /\ requests = 0
    /\ ret = Return(Nil, Nil)
    /\ version = 2
    /\ delay = IF op = "Receive" THEN reconnectionDelay(reqDelay) ELSE 0
    /\ ctxDone = FALSE
    /\ pc = IF op = "Receive" THEN "call" ELSE "off"
    /\ streamCtx = "none"
    /\ err = Nil
    /\ inCh = "nil"
    /\ inBuf = <<>>
    /\ msg = ZeroUnit
    /\ envelope = ZeroUnit
    /\ envelopeReady = FALSE
    /\ open = FALSE
    /\ outClosed = FALSE
    /\ recvWaiting = FALSE
    /\ sent = <<>>
    /\ received = <<>>
    /\ ended = "none"
    /\ sinceConnect = 0
    /\ sinceEnd = 0
    /\ body = "none"
    /\ StagesOff

ClientNext ==
    \/ NewClientCall
    \/ \E t \in TokenResults : ClientToken(t)
    \/ \E r \in DoResults : ClientDo(r)
    \/ \E ce \in CloseResults : ClientStatus(ce)
    \/ ReceiveReturnErr
    \/ ReceiveReturnOk
    \/ Cancel
    \/ Tick
    \/ CallerWait
    \/ \E u \in Units : SourceSend(u)
    \/ SourceClose
    \/ BodyClose
    \/ R2Call
    \/ R2SendErr
    \/ R2SendErrDone
    \/ R2LoopReturn
    \/ R2Recv
    \/ R2RecvClosed
    \/ R2Send
    \/ R2LoopDone
    \/ R2Delay
    \/ R2DelayDone

ClientSpec == ClientInit /\ [][ClientNext]_vars

(* -------------------------------------------------- claims on the client *)

\* The wait that the documentation of ReceiveRequest.ReconnectionDelay
\* promises for a request.
DocumentedDelay(d) == IF d > 0 THEN d ELSE DocumentedReconnectionDelay

\* C24: when ReceiveRequest.ReconnectionDelay is zero or negative, Receive
\* waits 10 seconds between reconnects, and a positive value is used as
\* given: reconnectStream leaves its delay select for the next attempt only
\* after that time has passed since the attempt ended.
C24_DefaultDelayIsTenSeconds ==
    [][(op = "Receive" /\ pc = "delay" /\ pc' = "call")
          => sinceEnd >= DocumentedDelay(reqDelay)]_vars

\* strings.Contains(s, t)
Contains(s, t) ==
    \E i \in 1..(Len(s) - Len(t) + 1) : SubSeq(s, i, i + Len(t) - 1) = t

\* The token getter returned an error in the current call.
TokenFailed == token # Nil /\ token[1].err # Nil

\* C25: when the TokenGetter returns an error, Send, Sync and Receive perform
\* no HTTP request in that call, and report an error that contains the
\* getter's message: Send and Sync return it, Receive hands it to
\* reconnectStream, which delivers it as one error unit with no envelope and
\* leaves the output channel open.
C25_TokenErrorReportedWithoutRequest ==
    /\ [][requests' # requests => (token # Nil /\ token[1].err = Nil)]_vars
    /\ [](TokenFailed =>
            /\ res = Nil
            /\ (op \in {"Send", "Sync"} /\ cpc = "return") =>
                   (ret.err # Nil /\ Contains(ret.err[1], token[1].err[1]))
            /\ (op = "Receive" /\ pc = "sendErr") =>
                   (err # Nil /\ Contains(err[1], token[1].err[1])
                      /\ ~outClosed)
            /\ (op = "Receive" /\ pc = "delay" /\ ended = "error") =>
                   /\ Len(received) = 1
                   /\ received[1].Envelope = Nil
                   /\ received[1].Err # Nil
                   /\ Contains(received[1].Err[1], token[1].err[1])
                   /\ ~outClosed)

C25_Witness ==
    /\ op = "Receive"
    /\ TokenFailed
    /\ requests = 0
    /\ pc = "delay"
    /\ ended = "error"
    /\ received = <<ErrorUnit("get stream: get token: token error")>>
    /\ ~outClosed

\* The server answered the current attempt of Receive with a status that is
\* not 200.
NotOK ==
    /\ op = "Receive"
    /\ res # Nil
    /\ res[1].err = Nil
    /\ res[1].value[1].StatusCode # StatusOK

\* The title of the error document in the body of response r; a body that
\* is no JSON object has none.
ServerTitle(r) ==
    IF r.Body.json = "object" THEN Member(r.Body.members, "title", "") ELSE ""

\* Error text e reports the server's error: it contains the server's title.
ReportsServerError(e) == Contains(e, ServerTitle(res[1].value[1]))

\* Error text e reports the server's error, or the failure to decode it or
\* to close the body.
ReportsServerOrLocalError(e) ==
    \/ Contains(e, "close response body: ")
    \/ IF DecodeResponseError(res[1].value[1].Body) = Nil
         THEN ReportsServerError(e)
         ELSE Contains(e, "decode response: ")

\* The claim of C26 for a test `reports' of the error text: after a status
\* that is not 200 the body is closed, no envelope stream is started for the
\* attempt, one error unit is delivered whose error passes the test, and the
\* output channel stays open.
NotOKHandled(reports(_)) ==
    NotOK =>
        /\ (pc = "connecting" /\ cpc = "return") =>
               (resBody = "closed" /\ ret.value = Nil /\ ret.err # Nil)
        /\ pc = "sendErr" =>
               /\ resBody = "closed"
               /\ inCh = "nil" /\ sent = <<>>
               /\ err # Nil /\ reports(err[1])
               /\ ~outClosed
        /\ (pc = "delay" /\ ended = "error") =>
               /\ resBody = "closed"
               /\ inCh = "nil" /\ sent = <<>>
               /\ Len(received) = 1
               /\ received[1].Envelope = Nil
               /\ received[1].Err # Nil
               /\ reports(received[1].Err[1])
               /\ ~outClosed

\* C26 (as claimed): when the server answers a Receive connection attempt
\* with a non-200 status, the response body is closed, no envelope stream is
\* started for that attempt, the server's error is delivered as one in-band
\* error unit containing the server's title, and the output channel stays
\* open for the next attempt.
C26_ServerErrorDelivered == NotOKHandled(ReportsServerError)

\* C26 (amended): as claimed, except that the error unit carries the error
\* of closing the body when the close fails, and the error of decoding the
\* body when the body is no JSON document; it contains the server's title
\* in every other case.
C26_ServerOrCloseErrorDelivered == NotOKHandled(ReportsServerOrLocalError)

C26_Witness ==
    /\ NotOK
    /\ pc = "delay"
    /\ ended = "error"
    /\ resBody = "closed"
    /\ received = <<ErrorUnit("get stream: error from the server")>>
    /\ ~outClosed

\* NewClient returned no client and an error that contains text.
Rejected(text) ==
    ret.value = Nil /\ ret.err # Nil /\ Contains(ret.err[1], text)

\* C27: NewClient returns an error and no client when PipelineURL cannot be
\* parsed ("malformed URL"), otherwise when Group is empty ("missing
\* group"), otherwise when TokenGetter is nil ("missing token getter"); in
\* every other case it returns a client and no error.
C27_NewClientValidation ==
    (op = "NewClient" /\ cpc = "return") =>
        IF ParseError(cfg[1].PipelineURL) # Nil
          THEN Rejected("malformed URL")
        ELSE IF cfg[1].Group = ""
          THEN Rejected("missing group")
        ELSE IF cfg[1].TokenGetter = "nil"
          THEN Rejected("missing token getter")
        ELSE ret.value # Nil /\ ret.err = Nil

C27_Witness ==
    /\ op = "NewClient"
    /\ cpc = "return"
    /\ cfg[1].PipelineURL = ":"
    /\ cfg[1].Group = ""
    /\ cfg[1].TokenGetter = "nil"
    /\ Rejected("malformed URL")

(* ------------------------------- claims on the fused stream's termination *)

\* C28: when the fused envelopeStream terminates because the ping deadline
\* elapsed, it terminates silently: the terminating step and every later
\* one send nothing on out, neither an error unit nor the unit that was
\* pending, and out is closed.
C28_DeadlineTerminatesSilently ==
    /\ [][(stage = "fused" /\ (exit = "deadline" \/ exit' = "deadline"))
             => received' = received]_vars
    /\ []((stage = "fused" /\ exit = "deadline" /\ Finished) => outClosed)

\* The stream ended on its deadline while a DATA envelope was pending, and
\* the caller received nothing.
C28_Witness ==
    /\ stage = "fused"
    /\ exit = "deadline"
    /\ Finished
    /\ outClosed
    /\ envelopeReady
    /\ HasType(envelope, {"DATA"})
    /\ received = <<>>

\* C29: the fused envelopeStream never drops a unit it has taken from the
\* decoder because the consumer is slow: while a unit is pending no step
\* replaces it, and it stops being pending only by being sent on out; a
\* stream that has terminated with a unit still pending terminated through
\* cancellation or its deadline, or the unit is io.EOF.
C29_PendingUnitKeptUntilDelivered ==
    /\ [][(stage = "fused" /\ envelopeReady) =>
             /\ envelope' = envelope
             /\ envelopeReady' \/ received' = Append(received, envelope)]_vars
    /\ []((stage = "fused" /\ envelopeReady /\ exit # "none") =>
             \/ exit \in {"ctx", "deadline"}
             \/ exit = "eof" /\ envelope.Err = Some(EOF))

\* A unit was delivered, the next one is pending, time has passed since the
\* stream started and the stream is still running.
C29_Witness ==
    /\ stage = "fused"
    /\ exit = "none"
    /\ Len(received) = 1
    /\ envelopeReady
    /\ HasType(envelope, {"DATA"})
    /\ sincePing >= 1
    /\ ~recvWaiting

\* The stream took a PING: it is pending or was delivered.
TookPing ==
    \/ envelopeReady /\ HasType(envelope, {"PING"})
    \/ \E i \in 1..Len(received) : HasType(received[i], {"PING"})

\* C30: the fused envelopeStream terminates on a deadline wake-up only if
\* the deadline has passed: more than pingTimeout after the last PING it
\* took, or, when it took none, once the timer armed at the start for
\* pingTimeout has fired; a wake-up that finds the deadline not passed
\* re-arms the timer for the time that remains and the stream keeps running.
C30_DeadlineExitOnlyWhenOverdue ==
    /\ [][(stage = "fused" /\ exit = "none" /\ exit' = "deadline")
             => (timer = 0 /\ deadline < 0)]_vars
    /\ [][(stage = "fused" /\ timer = 0 /\ timer' > 0)
             => (deadline >= 0 /\ timer' = deadline /\ exit' = "none"
                   /\ epc' = "select")]_vars
    /\ []((stage = "fused" /\ exit = "deadline") =>
             IF TookPing THEN sincePing > pingTimeout
                         ELSE sincePing >= pingTimeout)

\* The stream took a PING after it started, so that the timer armed at the
\* start fired early and was re-armed, and ended on its deadline later.
C30_Witness ==
    /\ stage = "fused"
    /\ exit = "deadline"
    /\ received = <<[Envelope |-> Some(DecodeEnvelope(PingValue.members)),
                     Err |-> Nil]>>
    /\ sincePing = pingTimeout + 1
    /\ Finished

(* ------------------------------------------------- claims on the decoder *)

\* The last unit the decoder built reports a decode failure: an error that
\* is not io.EOF.
DecodeFailed == dUnit.Err # Nil /\ dUnit.Err # Some(EOF)

\* The step is a call of decoder.Decode that gets past the error the
\* decoder keeps: it parses a value of its buffer or reads the body.
ParseAttempt == dpc = "decode" /\ dpc' # "decode" /\ decErr = Nil

\* C31: after a decode failure the decoder task makes no further parse
\* attempt: it emits the error once and then terminates, in the staged
\* envelopeStream and in decodeEnvelopes of the fused one.
C31_NoParseAfterDecodeFailure ==
    [][(stage \in {"staged", "fused"} /\ DecodeFailed) => ~ParseAttempt]_vars

\* The task that reads the body (the goroutine of the staged envelopeStream,
\* decodeEnvelopes of the fused one) is at its deferred body.Close().
ReaderCloses == dpc = "closeBody"

\* The goroutine that envelopeStream starts is at its deferred body.Close().
StreamCloses ==
    \/ stage = "staged" /\ dpc = "closeBody"
    \/ stage = "fused" /\ epc = "closeBody"

\* C32 (as claimed): the body is owned by the decoder task alone: only the
\* task that reads the body ever closes it, when that task exits, and no
\* other task closes it while the decoder task may still be reading.
C32_OnlyReaderClosesBody ==
    [][(stage \in {"staged", "fused"} /\ body' # body) => ReaderCloses]_vars

\* C32 (amended): the body is closed exactly once, by the goroutine that
\* envelopeStream starts, when that goroutine exits, whatever made it exit.
\* In the staged envelopeStream that goroutine is the reader; in the fused
\* one the reader is decodeEnvelopes, whose context is cancelled before the
\* body is closed but which may still be reading.
C32_StreamGoroutineClosesBodyOnce ==
    /\ [][(stage \in {"staged", "fused"} /\ body' # body) =>
             (body = "open" /\ body' = "closed" /\ StreamCloses)]_vars
    /\ []((stage \in {"staged", "fused"} /\ Finished) => body = "closed")
    /\ []((stage = "fused" /\ body = "closed") => cancelled)

\* The fused stream closed the body while decodeEnvelopes was in a read.
C32_Witness ==
    /\ stage = "fused"
    /\ body = "closed"
    /\ Finished
    /\ dpc = "decode"
    /\ bodyEnd = "stall"
    /\ exit = "deadline"

(* ---------------------------------------------- claims on the supervisor *)

\* The state of the context the factory of the current attempt was called
\* with: streamCtx in version 1 (line 161), a child of the caller's ctx
\* (line 158) that is cancelled with it or by streamCancel; the caller's ctx
\* itself in version 2 (line 336).
AttemptContext ==
    IF version = 1 /\ streamCtx # "live" THEN streamCtx
    ELSE IF ctxDone THEN "cancelled" ELSE "live"

\* C33: the context of a connection attempt is cancelled no later than the
\* moment reconnectStream starts the delay that follows the attempt, and in
\* any case before the next factory invocation.
C33_AttemptContextCancelledBeforeDelay ==
    /\ [](pc = "delay" => AttemptContext = "cancelled")
    /\ [][(pc = "call" /\ pc' = "connecting" /\ ended # "none")
             => AttemptContext = "cancelled"]_vars

(* --------------------------------------------------- claims on shutdown *)

\* A step of the goroutine of the staged envelopeStream.
StagedStep ==
    SDecode \/ SSend \/ SCtxDone \/ SDeferCloseBody \/ SDeferCloseOut

\* A step of decodeEnvelopes.
DecoderStep == DDecode \/ DCtxDone

\* A step of the goroutine of the fused envelopeStream.
FusedStep ==
    \/ FRecv \/ FSend \/ FWake \/ FCtxDone
    \/ FDeferCancel \/ FDeferCloseOut \/ FDeferCloseBody

\* A step of the goroutine of a filter.
FilterStep ==
    \/ PRecv \/ PRecvClosed \/ PTimer \/ PCtxDone \/ PSend \/ PSendCtxDone
    \/ PDeferCloseOut
    \/ EosRecv \/ EosRecvClosed \/ EosCtxDone \/ EosSend \/ EosSendCtxDone
    \/ EosDeferCloseOut

\* Go runs every goroutine that can take a step, and select takes a
\* ctx.Done() case that stays ready.  Nothing is assumed of the caller or of
\* the writer of the body.
StopFairness ==
    /\ WF_vars(StagedStep)
    /\ WF_vars(DecoderStep)
    /\ WF_vars(FusedStep)
    /\ WF_vars(FilterStep)
    /\ SF_vars(SCtxDone \/ FCtxDone \/ PCtxDone \/ PSendCtxDone
                 \/ EosCtxDone \/ EosSendCtxDone)

StopSpec == ESpec /\ StopFairness

\* Every goroutine of the stage has returned.
TasksDone ==
    CASE stage = "staged" -> dpc = "done"
      [] stage = "fused"  -> epc = "done" /\ dpc = "done"
      [] OTHER            -> epc = "done"

\* C34: after cancellation every task of the stage eventually terminates: a
\* decoder blocked handing off a unit is released by the cancellation, and a
\* decoder blocked in a read is released because the body is closed.
C34_CancellationStopsEveryTask == ctxDone ~> TasksDone

(* ------------------------------------- claims on what the supervisor sends *)

\* The step sends unit u on out.
Sends(u) == received' = Append(received, u)

\* C35: reconnectStream never fabricates a unit when a source closes: every
\* unit it sends is the unit it holds from the source of the attempt, or the
\* one "get stream" error of the attempt's failed factory call; and once a
\* source has closed, the units delivered for that attempt are units of the
\* source and nothing else.
C35_NoFabricatedUnit ==
    /\ [][(Len(received') > Len(received)) =>
             \/ pc = "sendErr" /\ received = <<>>
                  /\ Sends(ErrorUnit(GetStreamError(err[1])))
             \/ err = Nil /\ Pending # <<>> /\ Sends(Pending[1])
                  /\ IsPrefix(received', sent)]_vars
    /\ [](ended = "closed" /\ pc \in {"call", "delay"} =>
             IsPrefix(received, sent))

\* A source sent an envelope and an error unit of its own and closed; the
\* caller received these two units and nothing more, and the supervisor
\* waits to reconnect.
C35_Witness ==
    /\ version = 2
    /\ pc = "delay"
    /\ ended = "closed"
    /\ inCh = "closed"
    /\ ~ctxDone
    /\ sent = <<EnvelopeUnit("DATA"),
                ErrorUnit("decode envelope: unexpected EOF")>>
    /\ received = sent

(* -------------------------------------------------- claims on the filters *)

\* The least element of a non-empty set of numbers.
Least(S) == CHOOSE i \in S : \A j \in S : i <= j

\* The first n elements of s, or all of s when it has fewer.
Take(s, n) == SubSeq(s, 1, Min(n, Len(s)))

\* The positions of the body's values that are not JSON objects.
BadValues == {i \in 1..Len(bodyData) : bodyData[i].json # "object"}

\* The units a filter's input channel carries: the staged envelopeStream
\* sends one unit per value of the body and returns after the unit of a
\* value it could not decode.
FilterInput ==
    Take([i \in 1..Len(bodyData) |-> StagedUnit(bodyData[i])],
         IF BadValues = {} THEN Len(bodyData) ELSE Least(BadValues))

\* The unit a filter has received from in and not yet sent on out.
Held == IF epc = "send" THEN <<msg>> ELSE <<>>

\* C36: pingFilter passes its input through unchanged: its output is at all
\* times a prefix of its input, in order and unmodified; while it runs, what
\* it delivered and the unit it holds are exactly what it took from in; and
\* when it returns because in was closed it has delivered every input unit
\* and closes out.
C36_PingFilterPassesThrough ==
    stage = "ping" =>
        /\ IsPrefix(received, FilterInput)
        /\ exit = "none" => received \o Held = Take(FilterInput, bodyPos)
        /\ exit = "closed" => received = FilterInput
        /\ Finished => outClosed

\* pingFilter delivered a PING and a DATA envelope and closed out when in
\* was closed.
C36_Witness ==
    /\ stage = "ping"
    /\ exit = "closed"
    /\ Finished
    /\ outClosed
    /\ bodyData = <<PingValue, DataValue>>
    /\ received = <<StagedUnit(PingValue), StagedUnit(DataValue)>>

\* The positions of the END_OF_STREAM envelopes in sequence s.
EndOfStreams(s) == {i \in 1..Len(s) : HasType(s[i], {"END_OF_STREAM"})}

\* Sequence s up to and including its first END_OF_STREAM envelope, or all
\* of s when it has none.
UpToEndOfStream(s) ==
    IF EndOfStreams(s) = {} THEN s ELSE Take(s, Least(EndOfStreams(s)))

\* C37: endOfStreamFilter delivers its input unchanged and in order up to
\* and including the first END_OF_STREAM envelope and then closes out; it
\* never delivers a unit that follows END_OF_STREAM; when in closes without
\* one it has delivered everything it received and closes out.
C37_EndOfStreamFilterCutsAfterEndOfStream ==
    stage = "eos" =>
        /\ IsPrefix(received, UpToEndOfStream(FilterInput))
        /\ exit = "sent_eos" =>
               /\ received = UpToEndOfStream(FilterInput)
               /\ HasType(Last(received), {"END_OF_STREAM"})
        /\ exit = "closed" =>
               /\ received = FilterInput
               /\ EndOfStreams(FilterInput) = {}
        /\ Finished => outClosed

\* endOfStreamFilter delivered END_OF_STREAM, left the DATA envelope behind
\* it undelivered and closed out.
C37_Witness ==
    /\ stage = "eos"
    /\ bodyData = <<EndOfStreamValue, DataValue>>
    /\ received = <<StagedUnit(EndOfStreamValue)>>
    /\ exit = "sent_eos"
    /\ Finished
    /\ outClosed

\* C38: pingFilter never re-arms a timer that has expired; a PING received
\* after the timer fired and before the filter acted on it makes the filter
\* return: that PING is not forwarded, nothing is sent afterwards, and out
\* is closed.
C38_ExpiredTimerNeverRearmed ==
    /\ [][(stage = "ping" /\ timer = 0) => timer' = 0]_vars
    /\ [][(stage = "ping" /\ (exit = "stop" \/ exit' = "stop"))
             => received' = received]_vars
    /\ []((stage = "ping" /\ exit = "stop") =>
             /\ HasType(msg, {"PING"})
             /\ timer = 0
             /\ received = Take(FilterInput, bodyPos - 1)
             /\ Finished => outClosed)

\* The timer expired, a PING followed a DATA envelope that was delivered,
\* and the filter returned without forwarding the PING.
C38_Witness ==
    /\ stage = "ping"
    /\ exit = "stop"
    /\ Finished
    /\ outClosed
    /\ bodyData = <<DataValue, PingValue>>
    /\ received = <<StagedUnit(DataValue)>>

(* --------------------------------------------- claims on the pending unit *)

\* The units the fused envelopeStream can deliver for the body: one per
\* value, up to the unit of the first value that could not be decoded.
FusedInput ==
    Take([i \in 1..Len(bodyData) |-> FusedUnit(bodyData[i])],
         IF BadValues = {} THEN Len(bodyData) ELSE Least(BadValues))

\* The step receives from the input: the fused stream takes the unit that
\* decodeEnvelopes is sending, reconnectStream takes a unit or the closure
\* of in.
ReceivesFromInput ==
    \/ stage = "fused" /\ dpc = "send" /\ dpc' = "decode"
    \/ version = 2 /\ pc = "loop" /\ Len(inBuf') < Len(inBuf)
    \/ version = 2 /\ pc = "loop" /\ open /\ ~open'

\* C39: the fused envelopeStream and reconnectStream of lines 328-390 each
\* hold at most one undelivered unit: while a unit is pending they do not
\* receive from their input, the pending unit leaves only by being sent on
\* out, and the units come out in the order of the input.
C39_AtMostOnePendingUnit ==
    /\ [][((stage = "fused" \/ (version = 2 /\ pc = "loop"))
              /\ envelopeReady) => ~ReceivesFromInput]_vars
    /\ [][((stage = "fused" \/ (version = 2 /\ pc = "loop"))
              /\ envelopeReady /\ ~envelopeReady' /\ pc' = pc)
             => received' = Append(received, envelope)]_vars
    /\ [](stage = "fused" => IsPrefix(received, FusedInput))
    /\ []((version = 2 /\ pc = "loop") =>
             received \o Pending \o inBuf = sent)

\* reconnectStream holds the first unit of its source while the second one
\* waits in the input and the caller has received nothing.
C39_Witness ==
    /\ version = 2
    /\ pc = "loop"
    /\ envelopeReady
    /\ Len(inBuf) = 1
    /\ received = <<>>
    /\ sent = <<envelope>> \o inBuf
====
